---- MODULE Spec2Model ----
(***************************************************************************)
(* Freight transport network: OD pairs and paths (od.py), tonnage ledgers  *)
(* of OD pairs and links (tons.py), modal networks with their assignment   *)
(* and regrouping (modal_networks.py) and network costs (cost.py).         *)
(*                                                                         *)
(* Python strings are sequences of one-character strings, so that parsing  *)
(* ("10-25".split("-"), int("10")) and formatting (str(10)) are computed.  *)
(* Python floats are exact rationals <<numerator, denominator>> for the    *)
(* scalar OD ledgers (products and quotients) and integers on a grid of    *)
(* Res steps per 0.01 ton for the link ledgers (sums and differences).     *)
(* None is the empty tuple << >> and a value v that may be None is <<v>>.  *)
(***************************************************************************)
EXTENDS Integers, Sequences, FiniteSets, TLC

VARIABLES
    ods,        \* OD objects: reference -> fields of modules/builder/components/od.py OD
    tons,       \* OdTons objects: reference -> tons["original"], tons["derived"], projection_factor
    link_tons,  \* one LinkTons object: self.tons[mode][category][id_od]
    call,       \* the last call made: operation, arguments, result, raised or not
    old,        \* the value of the called objects right before that call
    ncalls,     \* number of calls made so far (bounded where tons can grow)
    net,        \* one modal network: od_pairs, links, paths, params, wagons, locoms, costs
    cost        \* one network cost object: rn, total_ton_km (None until it is built)

vars == <<ods, tons, link_tons, call, old, ncalls, net, cost>>

-----------------------------------------------------------------------------
(* Bounds *)

MaxNode == 12

MaxCalls == 4

MaxLinkCalls == 4

\* steps of the link tonnage grid in 0.01 ton
Res == 2

\* idle locomotives regrouped in one call
MaxLocs == 3

\* regroups of links made in a row
MaxRegroups == 2

\* links of a path that are absent from the network
MaxAbsentLinks == 51

\* links of a path that are present in the network
MaxPresentLinks == 2

\* the highest limit given to an iterator
MaxLimit == 7

-----------------------------------------------------------------------------
(* Python values *)

None == << >>

Some(v) == <<v>>

Min(a, b) == IF a < b THEN a ELSE b

Max(a, b) == IF a < b THEN b ELSE a

Abs(x) == IF x < 0 THEN -x ELSE x

Digits == <<"0", "1", "2", "3", "4", "5", "6", "7", "8", "9">>

IsDigit(c) == \E i \in 1..10 : Digits[i] = c

DigitVal(c) == (CHOOSE i \in 1..10 : Digits[i] = c) - 1

\* str(n) of a non-negative int: its decimal digits, no leading zero
RECURSIVE PyStr(_)
PyStr(n) ==
    IF n < 10 THEN <<Digits[n + 1]>>
    ELSE PyStr(n \div 10) \o <<Digits[(n % 10) + 1]>>

\* int(s) succeeds on a non-empty string of digits (the strings here hold
\* digits, "-" and letters only)
CanInt(s) == Len(s) > 0 /\ \A i \in 1..Len(s) : IsDigit(s[i])

RECURSIVE PyInt(_)
PyInt(s) ==
    IF Len(s) = 0 THEN 0
    ELSE 10 * PyInt(SubSeq(s, 1, Len(s) - 1)) + DigitVal(s[Len(s)])

\* s.split("-")
RECURSIVE PySplit(_)
PySplit(s) ==
    IF \A i \in 1..Len(s) : s[i] # "-" THEN <<s>>
    ELSE LET k == CHOOSE i \in 1..Len(s) :
                      s[i] = "-" /\ \A j \in 1..(i - 1) : s[j] # "-"
         IN  <<SubSeq(s, 1, k - 1)>> \o PySplit(SubSeq(s, k + 1, Len(s)))

\* "-".join(l)
RECURSIVE PyJoin(_)
PyJoin(l) ==
    IF Len(l) = 0 THEN << >>
    ELSE IF Len(l) = 1 THEN l[1]
    ELSE l[1] \o <<"-">> \o PyJoin(Tail(l))

\* bool(v) of a string or list that may be None
Truthy(v) == v # None /\ v[1] # << >>

-----------------------------------------------------------------------------
(* BasePath: od.py *)

\* [int(i) for i in s.split("-")], defined when every piece parses
IntList(s) == [i \in 1..Len(PySplit(s)) |-> PyInt(PySplit(s)[i])]

AllInt(s) == \A i \in 1..Len(PySplit(s)) : CanInt(PySplit(s)[i])

\* s < t on strings of digits, character by character
RECURSIVE StrLt(_, _)
StrLt(s, t) ==
    IF Len(s) = 0 THEN Len(t) > 0
    ELSE IF Len(t) = 0 THEN FALSE
    ELSE IF s[1] # t[1] THEN DigitVal(s[1]) < DigitVal(t[1])
    ELSE StrLt(Tail(s), Tail(t))

\* the two ends compared as text, without int()
_get_safe_id_text(id) ==
    LET nodes == PySplit(id)
    IN  IF StrLt(nodes[1], nodes[2])
        THEN nodes[1] \o <<"-">> \o nodes[2]
        ELSE nodes[2] \o <<"-">> \o nodes[1]

_get_safe_id(id) ==
    LET nodes == IntList(id)
    IN  IF nodes[1] < nodes[2]
        THEN PyStr(nodes[1]) \o <<"-">> \o PyStr(nodes[2])
        ELSE PyStr(nodes[2]) \o <<"-">> \o PyStr(nodes[1])

\* self._get_path_nodes(): None, or Some(list of ints)
_get_path_nodes(path, nodes) ==
    IF Truthy(path) /\ nodes[1] # nodes[2]
    THEN IF AllInt(path[1]) THEN Some(IntList(path[1])) ELSE None
    ELSE None

\* self._create_links_list()
_create_links_list(path_nodes) ==
    IF Truthy(path_nodes)
    THEN [i \in 1..(Len(path_nodes[1]) - 1) |->
            LET node_a == path_nodes[1][i]
                node_b == path_nodes[1][i + 1]
            IN  IF node_a < node_b
                THEN PyJoin(<<PyStr(node_a), PyStr(node_b)>>)
                ELSE PyJoin(<<PyStr(node_b), PyStr(node_a)>>)]
    ELSE << >>

-----------------------------------------------------------------------------
(* Floats as exact rationals <<n, d>>, d > 0, in lowest terms *)

RECURSIVE Gcd(_, _)
Gcd(a, b) == IF b = 0 THEN a ELSE Gcd(b, a % b)

R(n, d) ==
    LET g == Gcd(Abs(n), Abs(d))
        s == IF d < 0 THEN -1 ELSE 1
    IN  <<(s * n) \div g, (s * d) \div g>>

Zero == R(0, 1)

One == R(1, 1)

RAdd(x, y) == R(x[1] * y[2] + y[1] * x[2], x[2] * y[2])

RSub(x, y) == R(x[1] * y[2] - y[1] * x[2], x[2] * y[2])

RMul(x, y) == R(x[1] * y[1], x[2] * y[2])

\* x / y, y # 0
RDiv(x, y) == R(x[1] * y[2], x[2] * y[1])

RLt(x, y) == x[1] * y[2] < y[1] * x[2]

RLe(x, y) == x[1] * y[2] <= y[1] * x[2]

-----------------------------------------------------------------------------
(* OD: od.py *)

OdRefs == {"rail", "road"}

\* OD.__init__(id, ton, path, gauge, rail_category=rail_category)
OD(id, ton, path, gauge, rail_category) ==
    LET safe_id == _get_safe_id(id)
        nodes == IntList(safe_id)
        path_nodes == _get_path_nodes(path, nodes)
    IN  [id |-> safe_id,
         nodes |-> nodes,
         path |-> path,
         path_nodes |-> path_nodes,
         gauge |-> gauge,
         dist |-> None,
         links |-> _create_links_list(path_nodes),
         original_ton |-> ton,
         derived_ton |-> Zero,
         rail_category |-> rail_category]

get_ton(od) == RAdd(od.original_ton, od.derived_ton)

has_declared_path(od) == Truthy(od.path) /\ Truthy(od.gauge)

is_intrazone(od) == Len(od.nodes) = 2 /\ od.nodes[1] = od.nodes[2]

has_operable_path(od) == has_declared_path(od) /\ Truthy(od.path_nodes)

add_original_ton(od, ton) == [od EXCEPT !.original_ton = RAdd(@, ton)]

\* derive_ton that compares the ids only
derive_ton_id_only(self, other, coeff) ==
    IF ~(self.id = other.id)
    THEN [raised |-> TRUE, self |-> self, other |-> other, ret |-> None]
    ELSE LET self_original_ton == RAdd(self.original_ton, other.derived_ton)
             ton_should_be_derived == RMul(self_original_ton, coeff)
             ton_already_derived == other.derived_ton
             ton_to_derive == RSub(ton_should_be_derived, ton_already_derived)
             ton_to_return == self.derived_ton
         IN  [raised |-> FALSE,
              self |-> [self EXCEPT !.original_ton = RSub(@, ton_to_derive),
                                    !.derived_ton = RSub(@, ton_to_return)],
              other |-> [other EXCEPT !.derived_ton = RAdd(@, ton_to_derive),
                                      !.original_ton = RAdd(@, ton_to_return)],
              ret |-> Some(<<ton_to_derive, ton_to_return>>)]

\* self.derive_ton(other, coeff): the assert raises before anything is changed
derive_ton(self, other, coeff) ==
    IF ~(self.id = other.id /\ self.rail_category = other.rail_category)
    THEN [raised |-> TRUE, self |-> self, other |-> other, ret |-> None]
    ELSE LET self_original_ton == RAdd(self.original_ton, other.derived_ton)
             ton_should_be_derived == RMul(self_original_ton, coeff)
             ton_already_derived == other.derived_ton
             ton_to_derive == RSub(ton_should_be_derived, ton_already_derived)
             ton_to_return == self.derived_ton
         IN  [raised |-> FALSE,
              self |-> [self EXCEPT !.original_ton = RSub(@, ton_to_derive),
                                    !.derived_ton = RSub(@, ton_to_return)],
              other |-> [other EXCEPT !.derived_ton = RAdd(@, ton_to_derive),
                                      !.original_ton = RAdd(@, ton_to_return)],
              ret |-> Some(<<ton_to_derive, ton_to_return>>)]

\* set_path that keeps the old links when the new path gives no nodes
set_path_keep_links(od, path, gauge) ==
    LET od1 == [od EXCEPT !.path = path, !.gauge = gauge]
        od2 == [od1 EXCEPT !.path_nodes = _get_path_nodes(od1.path, od1.nodes)]
    IN  [od2 EXCEPT !.links = IF od2.path_nodes = None THEN od.links
                               ELSE _create_links_list(od2.path_nodes)]

\* self.set_path(path, gauge): the object afterwards
set_path(od, path, gauge) ==
    LET od1 == [od EXCEPT !.path = path, !.gauge = gauge]
        od2 == [od1 EXCEPT !.path_nodes = _get_path_nodes(od1.path, od1.nodes)]
    IN  [od2 EXCEPT !.links = _create_links_list(od2.path_nodes)]

-----------------------------------------------------------------------------
(* OdTons: tons.py *)

TonRefs == {"A", "B"}

\* OdTons.__init__(original_ton, category)
OdTons(original_ton, category) ==
    [original |-> original_ton,
     derived |-> Zero,
     projection_factor |-> One,
     category |-> category]

\* get(mode) for mode "original" or "derived"; get() is the total
OdTons_get(t, mode) == t[mode]

OdTons_get_total(t) == RAdd(t.original, t.derived)

\* _add_ton(ton, mode): a mode holding nothing is set, any other is increased
OdTons_add_ton(t, ton, mode) ==
    IF OdTons_get(t, mode) = Zero
    THEN [t EXCEPT ![mode] = ton]
    ELSE [t EXCEPT ![mode] = RAdd(@, ton)]

add_original(t, ton) == OdTons_add_ton(t, ton, "original")

\* _remove_ton(ton, mode): the assert raises before anything is changed
OdTons_remove_ton(t, ton, mode) ==
    IF ~RLe(ton, OdTons_get(t, mode))
    THEN [raised |-> TRUE, obj |-> t]
    ELSE [raised |-> FALSE, obj |-> [t EXCEPT ![mode] = RSub(@, ton)]]

\* derive with the returned tons removed from self and never given to other
derive_drops_returned(self, other, coeff, allow_original) ==
    LET self_original_ton == RAdd(self.original, other.derived)
        ton_should_be_derived == RMul(self_original_ton, coeff)
        ton_already_derived == other.derived
        ton_to_derive == IF allow_original
                         THEN RSub(ton_should_be_derived, ton_already_derived)
                         ELSE Zero
        ton_to_return == self.derived
        s1 == OdTons_remove_ton(self, ton_to_derive, "original")
        s2 == OdTons_remove_ton(s1.obj, ton_to_return, "derived")
        o1 == OdTons_add_ton(other, ton_to_derive, "derived")
    IN  IF s1.raised
        THEN [raised |-> TRUE, self |-> self, other |-> other, ret |-> None]
        ELSE IF s2.raised
        THEN [raised |-> TRUE, self |-> s1.obj, other |-> other, ret |-> None]
        ELSE [raised |-> FALSE, self |-> s2.obj, other |-> o1,
              ret |-> Some(<<ton_to_derive, ton_to_return>>)]

\* derive that derives original tons whatever allow_original says
derive_ignores_allow(self, other, coeff, allow_original) ==
    LET self_original_ton == RAdd(self.original, other.derived)
        ton_should_be_derived == RMul(self_original_ton, coeff)
        ton_already_derived == other.derived
        ton_to_derive == RSub(ton_should_be_derived, ton_already_derived)
        ton_to_return == self.derived
        s1 == OdTons_remove_ton(self, ton_to_derive, "original")
        s2 == OdTons_remove_ton(s1.obj, ton_to_return, "derived")
        o1 == OdTons_add_ton(other, ton_to_derive, "derived")
        o2 == add_original(o1, ton_to_return)
    IN  IF s1.raised
        THEN [raised |-> TRUE, self |-> self, other |-> other, ret |-> None]
        ELSE IF s2.raised
        THEN [raised |-> TRUE, self |-> s1.obj, other |-> other, ret |-> None]
        ELSE [raised |-> FALSE, self |-> s2.obj, other |-> o2,
              ret |-> Some(<<ton_to_derive, ton_to_return>>)]

\* derive with the difference taken the wrong way round
derive_sign_slip(self, other, coeff, allow_original) ==
    LET self_original_ton == RAdd(self.original, other.derived)
        ton_should_be_derived == RMul(self_original_ton, coeff)
        ton_already_derived == other.derived
        ton_to_derive == IF allow_original
                         THEN RSub(ton_already_derived, ton_should_be_derived)
                         ELSE Zero
        ton_to_return == self.derived
        s1 == OdTons_remove_ton(self, ton_to_derive, "original")
        s2 == OdTons_remove_ton(s1.obj, ton_to_return, "derived")
        o1 == OdTons_add_ton(other, ton_to_derive, "derived")
        o2 == add_original(o1, ton_to_return)
    IN  IF s1.raised
        THEN [raised |-> TRUE, self |-> self, other |-> other, ret |-> None]
        ELSE IF s2.raised
        THEN [raised |-> TRUE, self |-> s1.obj, other |-> other, ret |-> None]
        ELSE [raised |-> FALSE, self |-> s2.obj, other |-> o2,
              ret |-> Some(<<ton_to_derive, ton_to_return>>)]

\* derive with the share taken of the original tons self holds now, the
\* tons already derived to other left out of the account
derive_share_of_held(self, other, coeff, allow_original) ==
    LET ton_to_derive == IF allow_original
                         THEN RMul(self.original, coeff)
                         ELSE Zero
        ton_to_return == self.derived
        s1 == OdTons_remove_ton(self, ton_to_derive, "original")
        s2 == OdTons_remove_ton(s1.obj, ton_to_return, "derived")
        o1 == OdTons_add_ton(other, ton_to_derive, "derived")
        o2 == add_original(o1, ton_to_return)
    IN  IF s1.raised
        THEN [raised |-> TRUE, self |-> self, other |-> other, ret |-> None]
        ELSE IF s2.raised
        THEN [raised |-> TRUE, self |-> s1.obj, other |-> other, ret |-> None]
        ELSE [raised |-> FALSE, self |-> s2.obj, other |-> o2,
              ret |-> Some(<<ton_to_derive, ton_to_return>>)]

\* self.derive(other, coeff, allow_original): the two objects afterwards, the
\* pair returned, or raised with what had been changed until then
derive(self, other, coeff, allow_original) ==
    LET self_original_ton == RAdd(self.original, other.derived)
        ton_should_be_derived == RMul(self_original_ton, coeff)
        ton_already_derived == other.derived
        ton_to_derive == IF allow_original
                         THEN RSub(ton_should_be_derived, ton_already_derived)
                         ELSE Zero
        ton_to_return == self.derived
        s1 == OdTons_remove_ton(self, ton_to_derive, "original")
        s2 == OdTons_remove_ton(s1.obj, ton_to_return, "derived")
        o1 == OdTons_add_ton(other, ton_to_derive, "derived")
        o2 == add_original(o1, ton_to_return)
    IN  IF s1.raised
        THEN [raised |-> TRUE, self |-> self, other |-> other, ret |-> None]
        ELSE IF s2.raised
        THEN [raised |-> TRUE, self |-> s1.obj, other |-> other, ret |-> None]
        ELSE [raised |-> FALSE, self |-> s2.obj, other |-> o2,
              ret |-> Some(<<ton_to_derive, ton_to_return>>)]

project(t, projection_factor) ==
    [t EXCEPT !.projection_factor = projection_factor,
              !.original = RMul(@, projection_factor),
              !.derived = RMul(@, projection_factor)]

\* revert_project with the factor reset before the tons are divided
revert_project_resets_first(t) ==
    [t EXCEPT !.projection_factor = One]

\* revert_project(), for a projection factor other than 0
revert_project(t) ==
    [t EXCEPT !.original = RDiv(@, t.projection_factor),
              !.derived = RDiv(@, t.projection_factor),
              !.projection_factor = One]

-----------------------------------------------------------------------------
(* LinkTons: tons.py. Tons are integers, Res steps to 0.01 ton. *)

\* the 0.01 of _remove_ton
Tol == Res

Modes == {"original", "derived"}

\* a dict: a function of its keys
EmptyDict == << >>

DictPut(d, k, v) == [x \in (DOMAIN d) \cup {k} |-> IF x = k THEN v ELSE d[x]]

DictDel(d, k) == [x \in (DOMAIN d) \ {k} |-> d[x]]

RECURSIVE SumValues(_)
SumValues(d) ==
    IF DOMAIN d = {} THEN 0
    ELSE LET k == CHOOSE x \in DOMAIN d : TRUE
         IN  d[k] + SumValues(DictDel(d, k))

\* BaseTons.__init__
LinkTons == [mode \in Modes |-> EmptyDict]

\* get(categories, id_ods, modes): each filter is None or Some(value); a
\* filter that is None (or falsy) lets everything through
LinkTons_get(lt, categories, id_ods, modes) ==
    LET ByOd(categ_value) ==
            SumValues([o \in {x \in DOMAIN categ_value :
                                 ~Truthy(id_ods) \/ x = id_ods[1]}
                       |-> categ_value[o]])
        ByCategory(mode_value) ==
            SumValues([c \in {x \in DOMAIN mode_value :
                                 categories = None \/ categories[1] = 0
                                 \/ x = categories[1]}
                       |-> ByOd(mode_value[c])])
    IN  SumValues([m \in {x \in Modes : modes = None \/ x = modes[1]}
                   |-> ByCategory(lt[m])])

LinkTons_get_original(lt, categories, id_ods) ==
    LinkTons_get(lt, categories, id_ods, Some("original"))

LinkTons_get_derived(lt, categories, id_ods) ==
    LinkTons_get(lt, categories, id_ods, Some("derived"))

_safe_dict_keys(lt, category, id_od, mode) ==
    LET lt1 == IF lt[mode] = EmptyDict THEN [lt EXCEPT ![mode] = EmptyDict] ELSE lt
        lt2 == IF category \notin DOMAIN lt1[mode]
               THEN [lt1 EXCEPT ![mode] = DictPut(@, category, EmptyDict)]
               ELSE lt1
    IN  IF id_od \notin DOMAIN lt2[mode][category]
        THEN [lt2 EXCEPT ![mode][category] = DictPut(@, id_od, 0)]
        ELSE lt2

LinkTons_add_ton(lt, ton, category, id_od, mode) ==
    LET lt1 == _safe_dict_keys(lt, category, id_od, mode)
    IN  [lt1 EXCEPT ![mode][category][id_od] = @ + ton]

_remove_all_ton(lt, category, id_od, mode) ==
    LET lt1 == _safe_dict_keys(lt, category, id_od, mode)
    IN  [lt1 EXCEPT ![mode][category] = DictDel(@, id_od)]

\* a _remove_ton without the 0.01: it raises as soon as the tons to remove
\* exceed the existing ones and never deletes the entry
remove_ton_exact(lt, ton, category, id_od, mode) ==
    LET lt1 == _safe_dict_keys(lt, category, id_od, mode)
        existing_tons == lt1[mode][category][id_od]
    IN  IF ~(ton <= existing_tons)
        THEN [raised |-> TRUE, obj |-> lt1]
        ELSE [raised |-> FALSE,
              obj |-> [lt1 EXCEPT ![mode][category][id_od] = @ - ton]]

\* _remove_ton: raised, with the keys _safe_dict_keys has created
LinkTons_remove_ton(lt, ton, category, id_od, mode) ==
    LET lt1 == _safe_dict_keys(lt, category, id_od, mode)
        existing_tons == lt1[mode][category][id_od]
    IN  IF Abs(ton - existing_tons) > Tol
        THEN IF ~(ton < existing_tons)
             THEN [raised |-> TRUE, obj |-> lt1]
             ELSE [raised |-> FALSE,
                   obj |-> [lt1 EXCEPT ![mode][category][id_od] = @ - ton]]
        ELSE [raised |-> FALSE, obj |-> _remove_all_ton(lt1, category, id_od, mode)]

\* remove that takes the tons from the original entry first
remove_original_first(lt, ton, categories, id_ods) ==
    IF ton < LinkTons_get_original(lt, Some(categories), Some(id_ods))
    THEN LinkTons_remove_ton(lt, ton, categories, id_ods, "original")
    ELSE IF LinkTons_get_original(lt, Some(categories), Some(id_ods)) = 0
    THEN LinkTons_remove_ton(lt, ton, categories, id_ods, "derived")
    ELSE LET removing_der_ton ==
                 ton - LinkTons_get_original(lt, Some(categories), Some(id_ods))
             lt1 == _remove_all_ton(lt, categories, id_ods, "original")
         IN  LinkTons_remove_ton(lt1, removing_der_ton, categories, id_ods, "derived")

\* remove(ton, categories, id_ods)
remove(lt, ton, categories, id_ods) ==
    IF ton < LinkTons_get_derived(lt, Some(categories), Some(id_ods))
    THEN LinkTons_remove_ton(lt, ton, categories, id_ods, "derived")
    ELSE IF LinkTons_get_derived(lt, Some(categories), Some(id_ods)) = 0
    THEN LinkTons_remove_ton(lt, ton, categories, id_ods, "original")
    ELSE LET removing_orig_ton ==
                 ton - LinkTons_get_derived(lt, Some(categories), Some(id_ods))
             lt1 == _remove_all_ton(lt, categories, id_ods, "derived")
         IN  LinkTons_remove_ton(lt1, removing_orig_ton, categories, id_ods, "original")

-----------------------------------------------------------------------------
(* Link: the link class of the builder components, one object for each    *)
(* gauge of a link. It holds the distance, the tons and the idle capacity *)
(* of the link.                                                           *)

Link(id, dist, gauge, ton) ==
    [id |-> id, dist |-> dist, gauge |-> gauge, ton |-> ton,
     idle_capacity |-> Zero,
     eac_detour |-> None, eac_track |-> None, maintenance |-> None]

Link_get_dist(link) == link.dist

Link_get_ton(link) == link.ton

\* add_idle_cap(idle_capacity): spare capacity of the trains over the link
Link_add_idle_cap(link, idle_capacity) ==
    [link EXCEPT !.idle_capacity = RAdd(@, idle_capacity)]

\* regroup(capacity): idle capacity taken off the link by regrouping trains
Link_regroup(link, capacity) ==
    [link EXCEPT !.idle_capacity = RSub(@, capacity)]

\* revert_regroup(capacity): the inverse of regroup
Link_revert_regroup(link, capacity) ==
    [link EXCEPT !.idle_capacity = RAdd(@, capacity)]

-----------------------------------------------------------------------------
(* BaseModalNetwork: modal_networks.py *)

\* BaseModalNetwork.__init__
BaseModalNetwork ==
    [params |-> EmptyDict,
     od_pairs |-> EmptyDict,
     links |-> EmptyDict,
     paths |-> EmptyDict,
     costs |-> [mob |-> None, inf |-> None]]

-----------------------------------------------------------------------------
(* OD pairs of a network: modal_networks.py get_od, _create_od_pair *)

\* create_od_pair(network, id_od, category_od) of the network builder: a new
\* OD pair without tons, stored under the id and the category
create_od_pair(self, id_od, category_od) ==
    LET by_category == IF id_od \in DOMAIN self.od_pairs
                       THEN self.od_pairs[id_od] ELSE EmptyDict
        od == OD(id_od, Zero, None, None, category_od)
    IN  [self EXCEPT !.od_pairs =
            DictPut(@, id_od, DictPut(by_category, category_od, od))]

\* _create_od_pair(self, id_od, category_od), called with the arguments
\* args: a call with another number of arguments raises TypeError
_create_od_pair(self, args) ==
    IF Len(args) # 2
    THEN [raised |-> TRUE, self |-> self]
    ELSE [raised |-> FALSE, self |-> create_od_pair(self, args[1], args[2])]

\* get_od(id_od, category_od): the first call of _create_od_pair passes
\* (id_od, category_od), the second one passes (id_od) only
get_od(self, id_od, category_od) ==
    LET c1 == IF id_od \notin DOMAIN self.od_pairs
              THEN _create_od_pair(self, <<id_od, category_od>>)
              ELSE [raised |-> FALSE, self |-> self]
        c2 == IF category_od \notin DOMAIN c1.self.od_pairs[id_od]
              THEN _create_od_pair(c1.self, <<id_od>>)
              ELSE [raised |-> FALSE, self |-> c1.self]
    IN  IF c1.raised THEN [raised |-> TRUE, self |-> c1.self, ret |-> None]
        ELSE IF c2.raised THEN [raised |-> TRUE, self |-> c2.self, ret |-> None]
        ELSE IF category_od \notin DOMAIN c2.self.od_pairs[id_od]
        THEN [raised |-> TRUE, self |-> c2.self, ret |-> None]
        ELSE [raised |-> FALSE, self |-> c2.self,
              ret |-> Some(c2.self.od_pairs[id_od][category_od])]

-----------------------------------------------------------------------------
(* Distances: od.py BasePath.calc_distance, OD.calc_distance, Path; and   *)
(* modal_networks.py get_path_distance                                    *)

\* network_links[od_link][self.gauge] is there (else the lookup raises and
\* the bare except of calc_distance takes it)
HasLink(network_links, od_link, gauge) ==
    /\ od_link \in DOMAIN network_links
    /\ gauge \in DOMAIN network_links[od_link]

\* a calc_distance that gives up at the first missing link
RECURSIVE calc_distance_until_missing(_, _)
calc_distance_until_missing(self, network_links) ==
    IF self.links = << >> THEN Zero
    ELSE IF ~HasLink(network_links, self.links[1], self.gauge) THEN Zero
    ELSE RAdd(Link_get_dist(network_links[self.links[1]][self.gauge]),
              calc_distance_until_missing([self EXCEPT !.links = Tail(@)],
                                          network_links))

\* the loop of calc_distance from the i-th link of the path on
RECURSIVE calc_distance_loop(_, _, _, _)
calc_distance_loop(self, network_links, i, dist) ==
    IF i > Len(self.links) THEN dist
    ELSE LET od_link == self.links[i]
         IN  IF HasLink(network_links, od_link, self.gauge)
             THEN calc_distance_loop(self, network_links, i + 1,
                    RAdd(dist, Link_get_dist(network_links[od_link][self.gauge])))
             ELSE calc_distance_loop(self, network_links, i + 1, dist)

\* BasePath.calc_distance(network_links)
calc_distance(self, network_links) ==
    calc_distance_loop(self, network_links, 1, Zero)

\* OD.calc_distance(network_links): keeps the distance, returns nothing
OD_calc_distance(od, network_links) ==
    [od EXCEPT !.dist = Some(calc_distance(od, network_links))]

get_dist(od) == od.dist

\* Path.__init__(id, path, gauge)
Path(id, path, gauge) ==
    LET safe_id == _get_safe_id(id)
        nodes == IntList(safe_id)
        path_nodes == _get_path_nodes(path, nodes)
    IN  [id |-> safe_id,
         path |-> path,
         gauge |-> gauge,
         nodes |-> nodes,
         path_nodes |-> path_nodes,
         links |-> _create_links_list(path_nodes)]

\* BaseModalNetwork.get_path_distance(od); get_path raises KeyError for an
\* OD pair without a path in the network
get_path_distance(self, od) ==
    IF is_intrazone(od)
    THEN [raised |-> FALSE, ret |-> Some(Zero)]
    ELSE IF od.id \notin DOMAIN self.paths
    THEN [raised |-> TRUE, ret |-> None]
    ELSE [raised |-> FALSE,
          ret |-> Some(calc_distance(self.paths[od.id], self.links))]

-----------------------------------------------------------------------------
(* Ton-km of a network: modal_networks.py iter_od_pairs, get_total_ton_km *)

\* the sum of the rationals of a dict
RECURSIVE RSumValues(_)
RSumValues(d) ==
    IF DOMAIN d = {} THEN Zero
    ELSE LET k == CHOOSE x \in DOMAIN d : TRUE
         IN  RAdd(d[k], RSumValues(DictDel(d, k)))

RAbs(x) == IF x[1] < 0 THEN R(-x[1], x[2]) ELSE x

\* the (id, category) of the OD pairs iter_od_pairs() goes through
OdKeys(self) ==
    UNION { {<<id, c>> : c \in DOMAIN self.od_pairs[id]} :
            id \in DOMAIN self.od_pairs }

\* the (id, gauge) of the links of self.links
LinkKeys(self) ==
    UNION { {<<id, g>> : g \in DOMAIN self.links[id]} :
            id \in DOMAIN self.links }

\* total_tk_link of get_total_ton_km
total_tk_link(self) ==
    RSumValues([k \in LinkKeys(self) |->
                  RMul(Link_get_ton(self.links[k[1]][k[2]]),
                       Link_get_dist(self.links[k[1]][k[2]]))])

\* total_tk_od of get_total_ton_km, every OD pair having a distance
total_tk_od(self) ==
    RSumValues([k \in OdKeys(self) |->
                  RMul(get_ton(self.od_pairs[k[1]][k[2]]),
                       get_dist(self.od_pairs[k[1]][k[2]])[1])])

\* get_total_ton_km(): od.get_ton() * od.get_dist() raises TypeError for a
\* distance that is None, total_tk_link / total_tk_od raises
\* ZeroDivisionError for an OD total of 0.0, the assert raises AssertionError
get_total_ton_km(self) ==
    IF \E k \in OdKeys(self) : get_dist(self.od_pairs[k[1]][k[2]]) = None
    THEN [raised |-> TRUE, error |-> "TypeError", ret |-> None]
    ELSE IF total_tk_od(self) = Zero
    THEN [raised |-> TRUE, error |-> "ZeroDivisionError", ret |-> None]
    ELSE IF ~RLt(RAbs(RSub(RDiv(total_tk_link(self), total_tk_od(self)), One)),
                 R(1, 1000))
    THEN [raised |-> TRUE, error |-> "AssertionError", ret |-> None]
    ELSE [raised |-> FALSE, error |-> "", ret |-> Some(total_tk_link(self))]

-----------------------------------------------------------------------------
(* Rolling material (wagons, locomotives): the fleet class of the builder *)
(* components. A fleet holds its running time and its idle time, the tons *)
(* and ton-km it serves, and its speed, capacity and availability.        *)

RollingMaterial(speed, capacity, availability, stop_time) ==
    [speed |-> speed, capacity |-> capacity, availability |-> availability,
     stop_time |-> stop_time,
     running_time |-> Zero, idle_time |-> Zero,
     tons |-> Zero, ton_km |-> Zero]

\* fleet size needed: total time required / availability of a unit
get_units_needed_by_time(rm) ==
    RDiv(RAdd(rm.running_time, rm.idle_time), rm.availability)

get_average_haul(rm) ==
    IF rm.tons = Zero THEN Zero ELSE RDiv(rm.ton_km, rm.tons)

\* total operation hours
get_operation_time(rm) == RAdd(rm.running_time, rm.idle_time)

\* math.floor and the least whole number of units for a load
RFloor(x) == x[1] \div x[2]

RCeil(x) == -((-x[1]) \div x[2])

\* add_freight_service(tons, distance): the running time of the service is
\* tons x distance / (speed x capacity), each unit dispatched idles the stop
\* time; returns the idle capacity, the capacity of the units dispatched
\* that the tons leave unused
add_freight_service(rm, ton, dist) ==
    LET units == RCeil(RDiv(ton, rm.capacity))
        idle_capacity == RSub(RMul(R(units, 1), rm.capacity), ton)
    IN  [rm |-> [rm EXCEPT
                   !.running_time =
                       RAdd(@, RDiv(RMul(ton, dist),
                                    RMul(rm.speed, rm.capacity))),
                   !.idle_time = RAdd(@, RMul(R(units, 1), rm.stop_time)),
                   !.tons = RAdd(@, ton),
                   !.ton_km = RAdd(@, RMul(ton, dist))],
         ret |-> idle_capacity]

\* regroup(units, distance): units less to run over the distance and to
\* stop
regroup(rm, units, dist) ==
    [rm EXCEPT !.running_time = RSub(@, RDiv(RMul(units, dist), rm.speed)),
               !.idle_time = RSub(@, RMul(units, rm.stop_time))]

\* revert_regroup(units, distance): the inverse of regroup
revert_regroup(rm, units, dist) ==
    [rm EXCEPT !.running_time = RAdd(@, RDiv(RMul(units, dist), rm.speed)),
               !.idle_time = RAdd(@, RMul(units, rm.stop_time))]

\* add_regroup_time(units): the stop of the units regrouped
add_regroup_time(rm, units) ==
    [rm EXCEPT !.idle_time = RAdd(@, RMul(units, rm.stop_time))]

\* subtract_regroup_time(units): the inverse of add_regroup_time
subtract_regroup_time(rm, units) ==
    [rm EXCEPT !.idle_time = RSub(@, RMul(units, rm.stop_time))]

\* gross ton-km of a link: its net ton-km with the tare weight of the wagons
\* and locomotives that carry it
Link_get_gross_ton_km(link, w_capacity, w_weight, l_capacity, l_weight) ==
    RMul(RMul(link.ton, link.dist),
         RAdd(One, RAdd(RDiv(w_weight, w_capacity),
                        RDiv(l_weight, l_capacity))))

-----------------------------------------------------------------------------
(* Cost of a railway network: cost.py BaseNetworkCost, RailwayNetworkCost. *)
(* A cost object holds total_ton_km; rn is the network it refers to.       *)

\* x ** n and pow(x, n), the exponent being a whole number
RECURSIVE RPowInt(_, _)
RPowInt(x, n) == IF n = 0 THEN One ELSE RMul(x, RPowInt(x, n - 1))

RPow(x, e) ==
    IF e[2] = 1 /\ e[1] >= 0 THEN RPowInt(x, e[1])
    ELSE IF e[2] = 1 THEN RDiv(One, RPowInt(x, -e[1]))
    ELSE CHOOSE v \in {} : TRUE

\* self.total_ton_km > 0.1
OverGuard(self) == RLt(R(1, 10), self.total_ton_km)

\* BaseNetworkCost.__init__(rn): get_total_ton_km may raise
BaseNetworkCost(rn) ==
    LET res == get_total_ton_km(rn)
    IN  IF res.raised
        THEN [raised |-> TRUE, error |-> res.error, obj |-> None]
        ELSE [raised |-> FALSE, error |-> "",
              obj |-> Some([total_ton_km |-> res.ret[1]])]

_cost_eac_ton_km(self, eac, units) ==
    LET year_eac == RMul(eac, units)
    IN  IF OverGuard(self) THEN RDiv(year_eac, self.total_ton_km) ELSE Zero

_cost_eac_wagon(self, rn) ==
    _cost_eac_ton_km(self, rn.params.wagon_eac,
                     get_units_needed_by_time(rn.wagons))

_cost_eac_locom(self, rn) ==
    _cost_eac_ton_km(self, rn.params.locomotive_eac,
                     get_units_needed_by_time(rn.locoms))

_cost_fuel_and_lub(self, rn) ==
    LET fuel_by_km == rn.params.fuel_cost_by_km
        loc_average_haul == get_average_haul(rn.locoms)
        num_locoms == get_units_needed_by_time(rn.locoms)
        lub_fuel_ratio == rn.params.lubricants_fuel_ratio
        fuel_ton_km == IF OverGuard(self)
                       THEN RDiv(RMul(RMul(fuel_by_km, loc_average_haul),
                                      num_locoms), self.total_ton_km)
                       ELSE Zero
        lub_ton_km == RMul(fuel_ton_km, lub_fuel_ratio)
    IN  RAdd(fuel_ton_km, lub_ton_km)

_cost_mobility_maintenance(self, rn) ==
    LET locom_maintenance ==
            IF OverGuard(self)
            THEN RDiv(RMul(rn.params.maintenance_by_locomotive,
                           get_units_needed_by_time(rn.locoms)),
                      self.total_ton_km)
            ELSE Zero
        wagon_maintenance ==
            IF OverGuard(self)
            THEN RDiv(RMul(rn.params.maintenance_by_wagon,
                           get_units_needed_by_time(rn.wagons)),
                      self.total_ton_km)
            ELSE Zero
    IN  RAdd(locom_maintenance, wagon_maintenance)

_cost_manpower(self, rn) ==
    LET cost_by_hour == rn.params.manpower_cost_by_loc_hour
        operation_hours == get_operation_time(rn.locoms)
    IN  IF OverGuard(self)
        THEN RDiv(RMul(cost_by_hour, operation_hours), self.total_ton_km)
        ELSE Zero

\* a cost_mobility whose components are not divided by total_ton_km
cost_mobility_undivided(self, rn) ==
    LET RV == [eac_wagon |-> RMul(rn.params.wagon_eac,
                                  get_units_needed_by_time(rn.wagons)),
               eac_locom |-> _cost_eac_locom(self, rn),
               fuel_and_lub |-> _cost_fuel_and_lub(self, rn),
               maintenance |-> _cost_mobility_maintenance(self, rn),
               manpower |-> _cost_manpower(self, rn)]
    IN  DictPut(RV, "total_mobility", RSumValues(RV))

\* RailwayNetworkCost.cost_mobility()
cost_mobility(self, rn) ==
    LET RV == [eac_wagon |-> _cost_eac_wagon(self, rn),
               eac_locom |-> _cost_eac_locom(self, rn),
               fuel_and_lub |-> _cost_fuel_and_lub(self, rn),
               maintenance |-> _cost_mobility_maintenance(self, rn),
               manpower |-> _cost_manpower(self, rn)]
    IN  DictPut(RV, "total_mobility", RSumValues(RV))

\* _is_main_track(gross_tk, dist)
_is_main_track(rn, gross_tk, dist) ==
    LET net_to_gross == rn.params.net_to_gross_factor
        main_min_density == rn.params.main_min_density
        net_tk == RDiv(gross_tk, net_to_gross)
        density == RDiv(net_tk, dist)
    IN  RLt(main_min_density, density)

\* _capital_recovery_factor(int_rate, use_life)
_capital_recovery_factor(int_rate, use_life) ==
    LET a == RMul(int_rate, RPow(RAdd(One, int_rate), use_life))
        b == RSub(RPow(RAdd(One, int_rate), use_life), One)
    IN  RDiv(a, b)

\* RailwayNetworkCost._cost_eac_track(gross_tk, dist)
_cost_eac_track(rn, gross_tk, dist) ==
    IF _is_main_track(rn, gross_tk, dist)
    THEN LET a_eac == rn.params.coef_a_track_cost
             b_eac == rn.params.coef_b_track_cost
             max_gross_tk == rn.params.gross_tk_in_hq_track_lifetime
             int_rate == rn.params.interest_rate
             max_cost_track == rn.params.high_quality_track_price
             gross_tk_in_use_life ==
                 RDiv(RMul(rn.params.useful_life_track, gross_tk), dist)
             estimated == RLt(gross_tk_in_use_life, max_gross_tk)
             cost_track == IF estimated
                           THEN RAdd(a_eac, RMul(b_eac, gross_tk_in_use_life))
                           ELSE max_cost_track
             use_life == IF estimated THEN rn.params.useful_life_track
                         ELSE RDiv(max_gross_tk, RDiv(gross_tk, dist))
             crf == _capital_recovery_factor(int_rate, use_life)
         IN  RMul(RMul(cost_track, crf), dist)
    ELSE Zero

\* _calc_number_of_detours(gross_tk, dist)
_calc_number_of_detours(rn, gross_tk, dist) ==
    LET max_turnout_distance == rn.params.turnout_freq
        max_turnout_density == rn.params.turnout_freq_max_density
        density == RDiv(gross_tk, dist)
        t_distance == IF ~RLt(density, max_turnout_density)
                      THEN RDiv(max_turnout_distance,
                                RDiv(density, max_turnout_density))
                      ELSE max_turnout_distance
    IN  RDiv(dist, t_distance)

\* _cost_detour(gross_tk, dist)
_cost_detour(rn, gross_tk, dist) ==
    LET num_detours == _calc_number_of_detours(rn, gross_tk, dist)
        total_wages_cost == RMul(num_detours, rn.params.yearly_wages_by_turnout)
        density == RDiv(gross_tk, dist)
        total_eac_cost == RMul(num_detours, _cost_eac_track(rn, density, One))
    IN  RAdd(total_wages_cost, total_eac_cost)

\* _cost_infrast_maint(gross_tk, dist)
_cost_infrast_maint(rn, gross_tk, dist) ==
    LET track_maint ==
            RMul(RMul(RPow(RDiv(gross_tk, dist),
                           rn.params.coef_a_track_maint_cost),
                      rn.params.coef_b_track_maint_cost), gross_tk)
        no_track_maint ==
            RMul(RMul(RPow(RDiv(gross_tk, dist),
                           rn.params.coef_a_notrack_maint_cost),
                      rn.params.coef_b_notrack_maint_cost), gross_tk)
    IN  RAdd(track_maint, no_track_maint)

\* the three costs of one link in cost_infrast: the link has load
LinkInfrastCost(rn, link) ==
    LET gross_tk == Link_get_gross_ton_km(link,
                        rn.params.wagon_capacity, rn.params.wagon_weight,
                        rn.params.locomotive_capacity,
                        rn.params.locomotive_weight)
    IN  [eac_detour |-> _cost_detour(rn, gross_tk, Link_get_dist(link)),
         eac_track |-> _cost_eac_track(rn, gross_tk, Link_get_dist(link)),
         maintenance |-> _cost_infrast_maint(rn, gross_tk, Link_get_dist(link))]

\* the (id, gauge) of the links with load: link.get_ton() > 0
LoadedLinkKeys(rn) ==
    { k \in LinkKeys(rn) : RLt(Zero, Link_get_ton(rn.links[k[1]][k[2]])) }

\* RailwayNetworkCost.cost_infrast(): returns RV and writes the costs of
\* each link with load to the link
\* the costs c of a link written to the link
Link_with_costs(link, c) ==
    [link EXCEPT !.eac_detour = Some(c.eac_detour),
                 !.eac_track = Some(c.eac_track),
                 !.maintenance = Some(c.maintenance)]

\* RV[name] of cost_infrast from the costs of the links with load
InfrastRV(self, costs) ==
    [name \in {"eac_detour", "eac_track", "maintenance"} |->
        IF OverGuard(self)
        THEN RDiv(RSumValues([k \in DOMAIN costs |-> costs[k][name]]),
                  self.total_ton_km)
        ELSE Zero]

\* RV["total_infrastructure"] = sum(RV.values())
WithTotalInfrast(RV) == DictPut(RV, "total_infrastructure", RSumValues(RV))

\* what cost_infrast leaves and returns, costs being the costs of the links
\* with load
cost_infrast_of(self, rn, costs) ==
    [rn |-> [rn EXCEPT !.links =
                [id \in DOMAIN rn.links |->
                    [g \in DOMAIN rn.links[id] |->
                        IF <<id, g>> \in DOMAIN costs
                        THEN Link_with_costs(rn.links[id][g], costs[<<id, g>>])
                        ELSE rn.links[id][g]]]],
     ret |-> WithTotalInfrast(InfrastRV(self, costs))]

\* the cost of a link added to the cost the link already stores
Accumulated(link, c) ==
    [name \in DOMAIN c |->
        IF link[name] = None THEN c[name] ELSE RAdd(link[name][1], c[name])]

\* a cost_infrast that builds on the costs stored by earlier calls
cost_infrast_accumulating(self, rn) ==
    cost_infrast_of(self, rn,
                    [k \in LoadedLinkKeys(rn) |->
                        Accumulated(rn.links[k[1]][k[2]],
                            LinkInfrastCost(rn, rn.links[k[1]][k[2]]))])

\* a cost_infrast that costs every link, with load or without
cost_infrast_every_link(self, rn) ==
    cost_infrast_of(self, rn,
                    [k \in LinkKeys(rn) |->
                        LinkInfrastCost(rn, rn.links[k[1]][k[2]])])

\* RailwayNetworkCost.cost_infrast(): only the links with load are costed
cost_infrast(self, rn) ==
    cost_infrast_of(self, rn,
                    [k \in LoadedLinkKeys(rn) |->
                        LinkInfrastCost(rn, rn.links[k[1]][k[2]])])

-----------------------------------------------------------------------------
(* RailwayNetwork: modal_networks.py simple assignment of one OD pair *)

\* RailwayNetwork.__init__, before the builder fills the network
RailwayNetwork == [wagons |-> None, locoms |-> None] @@ BaseModalNetwork

MAX_EXCEPTIONS == 50

\* the loop of _calculate_mobility_od from the i-th link of the OD pair on:
\* the assert, the lookup of the link and, in the except clause, the count
\* and the report, whose "".join raises TypeError for a gauge that is None
RECURSIVE _calculate_mobility_od_loop(_, _, _, _, _)
_calculate_mobility_od_loop(self, od, idle_capacity_l, i, exception_counter) ==
    IF i > Len(od.links)
    THEN [raised |-> FALSE, error |-> "", self |-> self,
          exception_counter |-> exception_counter]
    ELSE IF ~(exception_counter < MAX_EXCEPTIONS)
    THEN [raised |-> TRUE, error |-> "AssertionError", self |-> self,
          exception_counter |-> exception_counter]
    ELSE IF HasLink(self.links, od.links[i], od.gauge)
    THEN _calculate_mobility_od_loop(
            [self EXCEPT !.links[od.links[i]][od.gauge] =
                            Link_add_idle_cap(@, idle_capacity_l)],
            od, idle_capacity_l, i + 1, exception_counter)
    ELSE IF od.gauge = None \/ od.path = None
    THEN [raised |-> TRUE, error |-> "TypeError", self |-> self,
          exception_counter |-> exception_counter + 1]
    ELSE _calculate_mobility_od_loop(self, od, idle_capacity_l, i + 1,
                                     exception_counter + 1)

\* _calculate_mobility_od(od), the OD pair having a distance
_calculate_mobility_od(self, od) ==
    LET w == add_freight_service(self.wagons, get_ton(od), get_dist(od)[1])
        l == add_freight_service(self.locoms, get_ton(od), get_dist(od)[1])
    IN  _calculate_mobility_od_loop(
            [self EXCEPT !.wagons = w.rm, !.locoms = l.rm],
            od, l.ret, 1, 0)

-----------------------------------------------------------------------------
(* RailwayNetwork: modal_networks.py cost of the network, simple assignment *)

\* RailwayNetworkCost(*args): the class has the __init__(self, rn) of
\* BaseNetworkCost, a call with another number of arguments raises TypeError
RailwayNetworkCost(args) ==
    IF Len(args) # 1
    THEN [raised |-> TRUE, error |-> "TypeError", obj |-> None]
    ELSE BaseNetworkCost(args[1])

\* _calc_mobility_cost(): builds the cost object from self.params,
\* self.locoms, self.wagons, self.links and returns its cost_mobility()
_calc_mobility_cost(self) ==
    LET args == <<self.params, self.locoms, self.wagons, self.links>>
        network_cost == RailwayNetworkCost(args)
    IN  IF network_cost.raised
        THEN [raised |-> TRUE, error |-> network_cost.error, ret |-> None]
        ELSE [raised |-> FALSE, error |-> "",
              ret |-> Some(cost_mobility(network_cost.obj[1], args[1]))]

\* the OD pairs of iter_od_pairs() in the order of the iteration
RECURSIVE OdSeq(_)
OdSeq(keys) ==
    IF keys = {} THEN << >>
    ELSE LET k == CHOOSE x \in keys : TRUE
         IN  <<k>> \o OdSeq(keys \ {k})

\* the loop of calc_simple_mobility_cost over the OD pairs left
RECURSIVE calc_simple_mobility_cost_loop(_, _)
calc_simple_mobility_cost_loop(self, keys) ==
    IF keys = << >> THEN [raised |-> FALSE, error |-> "", self |-> self]
    ELSE LET od == self.od_pairs[keys[1][1]][keys[1][2]]
             res == _calculate_mobility_od(self, od)
         IN  IF res.raised
             THEN [raised |-> TRUE, error |-> res.error, self |-> res.self]
             ELSE calc_simple_mobility_cost_loop(res.self, Tail(keys))

\* self.costs["mob"] = mob, unless the loop (assigned) or the cost raised
store_mobility_cost(assigned, mob) ==
    IF assigned.raised THEN assigned
    ELSE IF mob.raised
    THEN [raised |-> TRUE, error |-> mob.error, self |-> assigned.self]
    ELSE [raised |-> FALSE, error |-> "",
          self |-> [assigned.self EXCEPT !.costs.mob = mob.ret]]

\* the last line of calc_simple_mobility_cost and of
\* calc_optimized_mobility_cost, after their loops
calc_and_store_mobility_cost(assigned) ==
    store_mobility_cost(assigned, _calc_mobility_cost(assigned.self))

\* calc_simple_mobility_cost()
calc_simple_mobility_cost(self) ==
    calc_and_store_mobility_cost(
        calc_simple_mobility_cost_loop(self, OdSeq(OdKeys(self))))

-----------------------------------------------------------------------------
(* Cost of a roadway network: cost.py RoadwayNetworkCost *)

\* RoadwayNetwork.__init__, before the builder fills the network
RoadwayNetwork == [trucks |-> None] @@ BaseModalNetwork

\* RoadwayNetworkCost._cost_mobility(): asks the network for its total ton-km
\* again and divides by the one held
Road_cost_mobility_tk(self, rn) ==
    LET total == get_total_ton_km(rn)
    IN  IF total.raised
        THEN [raised |-> TRUE, error |-> total.error, ret |-> None]
        ELSE IF self.total_ton_km = Zero
        THEN [raised |-> TRUE, error |-> "ZeroDivisionError", ret |-> None]
        ELSE [raised |-> FALSE, error |-> "",
              ret |-> Some(RDiv(RMul(total.ret[1], rn.params.mobility_cost_tk),
                                self.total_ton_km))]

\* RoadwayNetworkCost.cost_mobility()
Road_cost_mobility(self, rn) ==
    LET c == Road_cost_mobility_tk(self, rn)
    IN  IF c.raised THEN c
        ELSE [raised |-> FALSE, error |-> "",
              ret |-> Some([total_mobility |-> c.ret[1]])]

\* RoadwayNetworkCost._cost_eac_track(ton, dist)
Road_cost_eac_track(rn, ton, dist) ==
    LET a_eac == rn.params.coef_a_infrast_cost
        b_eac == rn.params.coef_b_infrast_cost
        eac == RMul(b_eac, RPow(ton, a_eac))
    IN  RMul(eac, dist)

\* RoadwayNetworkCost.cost_infrast(): the cost of each link with load is
\* written to the link, then the sum is divided by the total ton-km held
Road_cost_infrast(self, rn) ==
    LET Eac(k) == Road_cost_eac_track(rn, Link_get_ton(rn.links[k[1]][k[2]]),
                                      Link_get_dist(rn.links[k[1]][k[2]]))
        eac_track == RSumValues([k \in LoadedLinkKeys(rn) |-> Eac(k)])
        links == [id \in DOMAIN rn.links |->
                    [g \in DOMAIN rn.links[id] |->
                        IF <<id, g>> \in LoadedLinkKeys(rn)
                        THEN [rn.links[id][g] EXCEPT
                                !.eac_track = Some(Eac(<<id, g>>))]
                        ELSE rn.links[id][g]]]
        written == [rn EXCEPT !.links = links]
    IN  IF self.total_ton_km = Zero
        THEN [raised |-> TRUE, error |-> "ZeroDivisionError", rn |-> written,
              ret |-> None]
        ELSE LET RV == [eac_track |-> RDiv(eac_track, self.total_ton_km)]
             IN  [raised |-> FALSE, error |-> "", rn |-> written,
                  ret |-> Some(DictPut(RV, "total_infrastructure",
                                       RSumValues(RV)))]

-----------------------------------------------------------------------------
(* RailwayNetwork: modal_networks.py regrouping of the trains of a link. *)
(* A link object is named by its key (id, gauge) in self.links.           *)

\* a _regroup_link that takes the capacity regrouped off the tons of the
\* link as well
_regroup_link_unloading(self, k, idle_locs) ==
    LET loc_capacity == self.params.locomotive_capacity
        wagon_capacity == self.params.wagon_capacity
        wagons_regrouped == RDiv(RMul(idle_locs, loc_capacity), wagon_capacity)
        link == self.links[k[1]][k[2]]
    IN  [self EXCEPT
            !.links[k[1]][k[2]] =
                [Link_regroup(@, RMul(idle_locs, loc_capacity)) EXCEPT
                    !.ton = RSub(@, RMul(idle_locs, loc_capacity))],
            !.locoms = regroup(@, idle_locs, Link_get_dist(link)),
            !.wagons = add_regroup_time(@, wagons_regrouped)]

\* _regroup_link(link, idle_locs)
_regroup_link(self, k, idle_locs) ==
    LET loc_capacity == self.params.locomotive_capacity
        wagon_capacity == self.params.wagon_capacity
        wagons_regrouped == RDiv(RMul(idle_locs, loc_capacity), wagon_capacity)
        link == self.links[k[1]][k[2]]
    IN  [self EXCEPT
            !.links[k[1]][k[2]] = Link_regroup(@, RMul(idle_locs, loc_capacity)),
            !.locoms = regroup(@, idle_locs, Link_get_dist(link)),
            !.wagons = add_regroup_time(@, wagons_regrouped)]

\* a _revert_regroup_link that gives the link back idle_locs, not the
\* capacity of idle_locs locomotives
_revert_regroup_link_units(self, k, idle_locs) ==
    LET loc_capacity == self.params.locomotive_capacity
        wagon_capacity == self.params.wagon_capacity
        wagons_regrouped == RDiv(RMul(idle_locs, loc_capacity), wagon_capacity)
        link == self.links[k[1]][k[2]]
    IN  [self EXCEPT
            !.links[k[1]][k[2]] = Link_revert_regroup(@, idle_locs),
            !.locoms = revert_regroup(@, idle_locs, link.dist),
            !.wagons = subtract_regroup_time(@, wagons_regrouped)]

\* _revert_regroup_link(link, idle_locs)
_revert_regroup_link(self, k, idle_locs) ==
    LET loc_capacity == self.params.locomotive_capacity
        wagon_capacity == self.params.wagon_capacity
        wagons_regrouped == RDiv(RMul(idle_locs, loc_capacity), wagon_capacity)
        link == self.links[k[1]][k[2]]
    IN  [self EXCEPT
            !.links[k[1]][k[2]] =
                Link_revert_regroup(@, RMul(idle_locs, loc_capacity)),
            !.locoms = revert_regroup(@, idle_locs, link.dist),
            !.wagons = subtract_regroup_time(@, wagons_regrouped)]

-----------------------------------------------------------------------------
(* RailwayNetwork: modal_networks.py regrouping pass *)

\* the (id, gauge) of the links in the order of the two loops over
\* self.links.values() and link.values()
RECURSIVE LinkSeq(_)
LinkSeq(keys) ==
    IF keys = {} THEN << >>
    ELSE LET k == CHOOSE x \in keys : TRUE
         IN  <<k>> \o LinkSeq(keys \ {k})

\* idle_locs = int(idle_capacity / loc_capacity) of the link k
idle_locs_of(self, k) ==
    R(RFloor(RDiv(self.links[k[1]][k[2]].idle_capacity,
                  self.params.locomotive_capacity)), 1)

\* the loops of calc_optimized_mobility_cost over the links left
RECURSIVE calc_optimized_mobility_cost_loop(_, _)

\* if new_cost >= current_cost: revert; then the links after keys[1]
revert_if_not_cheaper(regrouped, keys, idle_locs, current, new) ==
    IF new.raised
    THEN [raised |-> TRUE, error |-> new.error, self |-> regrouped]
    ELSE IF ~RLt(new.ret[1].total_mobility, current.ret[1].total_mobility)
    THEN calc_optimized_mobility_cost_loop(
            _revert_regroup_link(regrouped, keys[1], idle_locs), Tail(keys))
    ELSE calc_optimized_mobility_cost_loop(regrouped, Tail(keys))

\* new_cost = self._calc_mobility_cost() of the regrouped network
cost_regrouped(regrouped, keys, idle_locs, current) ==
    revert_if_not_cheaper(regrouped, keys, idle_locs, current,
                          _calc_mobility_cost(regrouped))

\* self._regroup_link(link_gauge, idle_locs) of the link keys[1]
regroup_first(self, keys, idle_locs, current) ==
    IF current.raised
    THEN [raised |-> TRUE, error |-> current.error, self |-> self]
    ELSE cost_regrouped(_regroup_link(self, keys[1], idle_locs), keys,
                        idle_locs, current)

calc_optimized_mobility_cost_loop(self, keys) ==
    IF keys = << >> THEN [raised |-> FALSE, error |-> "", self |-> self]
    ELSE regroup_first(self, keys, idle_locs_of(self, keys[1]),
                       _calc_mobility_cost(self))

\* calc_optimized_mobility_cost()
calc_optimized_mobility_cost(self) ==
    calc_and_store_mobility_cost(
        calc_optimized_mobility_cost_loop(self, LinkSeq(LinkKeys(self))))

-----------------------------------------------------------------------------
(* BaseModalNetwork: modal_networks.py iterators with a limit *)

\* d.values(): the values of a dict in the order of its iteration
RECURSIVE DictValues(_)
DictValues(d) ==
    IF DOMAIN d = {} THEN << >>
    ELSE LET k == CHOOSE x \in DOMAIN d : TRUE
         IN  <<d[k]>> \o DictValues(DictDel(d, k))

\* bool(limit) of "if limit and counter >= limit": None and 0 are false
LimitReached(limit, counter) ==
    /\ limit # None
    /\ limit[1] # 0
    /\ counter >= limit[1]

\* the inner loop over the values of one id: break ends this loop only;
\* gives what it yields and the counter
RECURSIVE iter_inner(_, _, _, _)
iter_inner(values, limit, counter, yielded) ==
    IF values = << >> THEN [yielded |-> yielded, counter |-> counter]
    ELSE IF LimitReached(limit, counter)
    THEN [yielded |-> yielded, counter |-> counter]
    ELSE iter_inner(Tail(values), limit, counter + 1,
                    Append(yielded, Head(values)))

\* the outer loop over the ids, the counter going from one id to the next
RECURSIVE iter_outer(_, _, _)
iter_outer(outer, limit, inner) ==
    IF outer = << >> THEN inner.yielded
    ELSE iter_outer(Tail(outer), limit,
                    iter_inner(DictValues(Head(outer)), limit, inner.counter,
                               inner.yielded))

\* iter_od_pairs(limit): the OD pairs yielded, in order
iter_od_pairs(self, limit) ==
    iter_outer(DictValues(self.od_pairs), limit,
               [yielded |-> << >>, counter |-> 0])

\* iter_links(limit): the links yielded, in order
iter_links(self, limit) ==
    iter_outer(DictValues(self.links), limit,
               [yielded |-> << >>, counter |-> 0])

-----------------------------------------------------------------------------
(* Arguments of the calls *)

Nodes == 0..MaxNode

MkId(a, b) == PyStr(a) \o <<"-">> \o PyStr(b)

\* "n1-n2-...": a path over the node list l
MkPath(l) == PyJoin([i \in 1..Len(l) |-> PyStr(l[i])])

Mid(a, b) == (a + b + 1) % (MaxNode + 1)

\* paths offered for an OD pair a-b: none, empty, a "not found" text, one
\* node, both directions with and without a node in between, a malformed one
PathArgs(a, b) ==
    { None, Some(<< >>), Some(<<"x">>), Some(PyStr(a)),
      Some(MkPath(<<a, b>>)), Some(MkPath(<<b, a>>)),
      Some(MkPath(<<a, Mid(a, b), b>>)), Some(MkPath(<<b, Mid(a, b), a>>)),
      Some(PyStr(a) \o <<"-", "-">> \o PyStr(b)) }

GaugeArgs == { None, Some(<<"a">>) }

-----------------------------------------------------------------------------
(* Objects a specification leaves alone *)

NoOds == [r \in OdRefs |-> OD(MkId(0, 1), Zero, None, None, None)]

NoTons == << >>

NoLinkTons == [mode \in {"original", "derived"} |-> << >>]

NoNet == << >>

-----------------------------------------------------------------------------
(* SpecPath: an OD pair is constructed in each modal network for the same *)
(* two nodes, given in either order; paths are then set on the rail one.  *)

InitPath ==
    \E a \in Nodes, b \in Nodes :
      \E path \in PathArgs(a, b), gauge \in GaugeArgs :
        /\ ods = [r \in OdRefs |->
                    IF r = "rail" THEN OD(MkId(a, b), Zero, path, gauge, None)
                    ELSE OD(MkId(b, a), Zero, None, None, None)]
        /\ call = [op |-> "OD", self |-> "rail", id |-> MkId(a, b),
                   path |-> path, gauge |-> gauge]
        /\ old = ods
        /\ tons = NoTons
        /\ link_tons = NoLinkTons
        /\ ncalls = 0
        /\ net = NoNet
        /\ cost = None

SetPath ==
    \E path \in PathArgs(ods["rail"].nodes[1], ods["rail"].nodes[2]) \cup
                 PathArgs(ods["rail"].nodes[2], ods["rail"].nodes[1]),
       gauge \in GaugeArgs :
        /\ ods' = [ods EXCEPT !["rail"] = set_path(@, path, gauge)]
        /\ call' = [op |-> "set_path", self |-> "rail", id |-> ods["rail"].id,
                    path |-> path, gauge |-> gauge]
        /\ old' = ods
        /\ UNCHANGED <<net, cost, tons, link_tons, ncalls>>

NextPath == SetPath

SpecPath == InitPath /\ [][NextPath]_vars

-----------------------------------------------------------------------------
(* SpecTons: two OdTons ledgers, of the same OD pair in two transport     *)
(* modes; tons are added, derived either way, projected and reverted.     *)
(* SpecTonsAny also passes coefficients outside [0, 1] to derive.         *)

\* tons added: add_original(ton), ton >= 0
TonArgs == { R(0, 1), R(500, 1) }

\* coefficients in [0, 1]
Coeffs01 == { R(0, 1), R(3, 10), R(1, 1) }

\* coefficients a caller can pass, in [0, 1] or not
CoeffsAny == Coeffs01 \cup { R(-1, 2), R(3, 2) }

\* projection factors, f > 0
FactorArgs == { R(1, 2), R(3, 1) }

InitTons ==
    \E a \in { R(0, 1), R(1000, 1) }, b \in { R(0, 1), R(400, 1) } :
        /\ tons = [r \in TonRefs |-> IF r = "A" THEN OdTons(a, None)
                                                ELSE OdTons(b, None)]
        /\ call = [op |-> "OdTons"]
        /\ old = tons
        /\ ods = NoOds
        /\ link_tons = NoLinkTons
        /\ ncalls = 0
        /\ net = NoNet
        /\ cost = None

AddOriginal ==
    \E self \in TonRefs, ton \in TonArgs :
        /\ ncalls < MaxCalls
        /\ tons' = [tons EXCEPT ![self] = add_original(@, ton)]
        /\ call' = [op |-> "add_original", self |-> self, ton |-> ton]
        /\ old' = tons
        /\ ncalls' = ncalls + 1
        /\ UNCHANGED <<net, cost, ods, link_tons>>

Derive(Coeffs) ==
    \E self \in TonRefs, other \in TonRefs, coeff \in Coeffs,
       allow_original \in BOOLEAN :
        LET r == derive(tons[self], tons[other], coeff, allow_original)
        IN  /\ self # other
            /\ ncalls < MaxCalls
            /\ tons' = [tons EXCEPT ![self] = r.self, ![other] = r.other]
            /\ call' = [op |-> "derive", self |-> self, other |-> other,
                        coeff |-> coeff, allow_original |-> allow_original,
                        raised |-> r.raised, ret |-> r.ret]
            /\ old' = tons
            /\ ncalls' = ncalls + 1
            /\ UNCHANGED <<net, cost, ods, link_tons>>

Project ==
    \E self \in TonRefs, projection_factor \in FactorArgs :
        /\ ncalls < MaxCalls
        /\ tons' = [tons EXCEPT ![self] = project(@, projection_factor)]
        /\ call' = [op |-> "project", self |-> self,
                    projection_factor |-> projection_factor]
        /\ old' = tons
        /\ ncalls' = ncalls + 1
        /\ UNCHANGED <<net, cost, ods, link_tons>>

RevertProject ==
    \E self \in TonRefs :
        /\ ncalls < MaxCalls
        /\ tons[self].projection_factor # Zero
        /\ tons' = [tons EXCEPT ![self] = revert_project(@)]
        /\ call' = [op |-> "revert_project", self |-> self,
                    projection_factor |-> tons[self].projection_factor,
                    after |-> call.op]
        /\ old' = tons
        /\ ncalls' = ncalls + 1
        /\ UNCHANGED <<net, cost, ods, link_tons>>

NextTons == AddOriginal \/ Derive(Coeffs01) \/ Project \/ RevertProject

SpecTons == InitTons /\ [][NextTons]_vars

NextTonsAny == AddOriginal \/ Derive(CoeffsAny) \/ Project \/ RevertProject

SpecTonsAny == InitTons /\ [][NextTonsAny]_vars

-----------------------------------------------------------------------------
(* SpecLink: the tons ledger of one link; tons of two freight categories  *)
(* of one OD pair are added to it and removed from it.                    *)

LinkCats == {1, 2}

LinkOds == { MkId(10, 25) }

\* tons added: below the tolerance, and well above it
LinkAddArgs == { Tol - 1, 4 * Tol }

\* tons removed: none, less than one addition, just over one, two additions
LinkRemoveArgs == { 0, 3 * Tol, 4 * Tol + 1, 8 * Tol }

InitLink ==
    /\ link_tons = LinkTons
    /\ call = [op |-> "LinkTons"]
    /\ old = link_tons
    /\ ods = NoOds
    /\ tons = NoTons
    /\ ncalls = 0
    /\ net = NoNet
    /\ cost = None

LinkAdd ==
    \E mode \in Modes, ton \in LinkAddArgs, category \in LinkCats, id_od \in LinkOds :
        /\ ncalls < MaxLinkCalls
        /\ link_tons' = LinkTons_add_ton(link_tons, ton, category, id_od, mode)
        /\ call' = [op |-> "add_" \o mode, ton |-> ton, category |-> category,
                    id_od |-> id_od, raised |-> FALSE]
        /\ old' = link_tons
        /\ ncalls' = ncalls + 1
        /\ UNCHANGED <<net, cost, ods, tons>>

LinkRemoveMode ==
    \E mode \in Modes, ton \in LinkRemoveArgs, category \in LinkCats, id_od \in LinkOds :
        LET r == LinkTons_remove_ton(link_tons, ton, category, id_od, mode)
        IN  /\ ncalls < MaxLinkCalls
            /\ link_tons' = r.obj
            /\ call' = [op |-> "remove_" \o mode, ton |-> ton, category |-> category,
                        id_od |-> id_od, raised |-> r.raised]
            /\ old' = link_tons
            /\ ncalls' = ncalls + 1
            /\ UNCHANGED <<net, cost, ods, tons>>

LinkRemove ==
    \E ton \in LinkRemoveArgs, category \in LinkCats, id_od \in LinkOds :
        LET r == remove(link_tons, ton, category, id_od)
        IN  /\ ncalls < MaxLinkCalls
            /\ link_tons' = r.obj
            /\ call' = [op |-> "remove", ton |-> ton, category |-> category,
                        id_od |-> id_od, raised |-> r.raised]
            /\ old' = link_tons
            /\ ncalls' = ncalls + 1
            /\ UNCHANGED <<net, cost, ods, tons>>

NextLink == LinkAdd \/ LinkRemoveMode \/ LinkRemove

SpecLink == InitLink /\ [][NextLink]_vars

-----------------------------------------------------------------------------
(* SpecOdTon: the OD pairs of two modal networks, built with ids and      *)
(* categories that agree or not; tons are added and derived either way,   *)
(* with any coefficient.                                                  *)

InitOdTon ==
    \E rail_id \in { MkId(10, 25), MkId(25, 10) },
       road_id \in { MkId(10, 25), MkId(12, 25) },
       rail_category \in { None, Some(1) },
       ton \in { R(0, 1), R(1000, 1) } :
        /\ ods = [r \in OdRefs |->
                    IF r = "rail" THEN OD(rail_id, ton, None, None, rail_category)
                    ELSE OD(road_id, Zero, None, None, Some(1))]
        /\ call = [op |-> "OD", self |-> "rail", id |-> rail_id,
                   path |-> None, gauge |-> None]
        /\ old = ods
        /\ tons = NoTons
        /\ link_tons = NoLinkTons
        /\ ncalls = 0
        /\ net = NoNet
        /\ cost = None

AddOriginalTon ==
    \E self \in OdRefs, ton \in TonArgs :
        /\ ncalls < MaxCalls
        /\ ods' = [ods EXCEPT ![self] = add_original_ton(@, ton)]
        /\ call' = [op |-> "add_original_ton", self |-> self, ton |-> ton]
        /\ old' = ods
        /\ ncalls' = ncalls + 1
        /\ UNCHANGED <<net, cost, tons, link_tons>>

DeriveTon ==
    \E self \in OdRefs, other \in OdRefs, coeff \in CoeffsAny :
        LET r == derive_ton(ods[self], ods[other], coeff)
        IN  /\ self # other
            /\ ncalls < MaxCalls
            /\ ods' = [ods EXCEPT ![self] = r.self, ![other] = r.other]
            /\ call' = [op |-> "derive_ton", self |-> self, other |-> other,
                        coeff |-> coeff, raised |-> r.raised, ret |-> r.ret]
            /\ old' = ods
            /\ ncalls' = ncalls + 1
            /\ UNCHANGED <<net, cost, tons, link_tons>>

NextOdTon == AddOriginalTon \/ DeriveTon

SpecOdTon == InitOdTon /\ [][NextOdTon]_vars

-----------------------------------------------------------------------------
(* SpecDist: a network with some of the links 10-17, 17-25 and 10-25, and *)
(* an OD pair with a path over them; its distance is calculated from the  *)
(* OD pair and asked from the network.                                    *)

GaugeA == Some(<<"a">>)

GaugeM == Some(<<"m">>)

\* (link id, gauge, distance) of the links a network may have
DistLinkArgs ==
    { <<MkId(10, 17), GaugeA, R(50, 1)>>, <<MkId(17, 25), GaugeA, R(80, 1)>>,
      <<MkId(17, 25), GaugeM, R(90, 1)>>, <<MkId(10, 25), GaugeA, R(120, 1)>> }

\* self.links of a network holding the links of entries
LinksTable(entries) ==
    [id \in {e[1] : e \in entries} |->
        [g \in {e[2] : e \in {x \in entries : x[1] = id}} |->
            LET e == CHOOSE x \in entries : x[1] = id /\ x[2] = g
            IN  Link(id, e[3], g, Zero)]]

DistOdArgs == { MkId(10, 25), MkId(25, 10), MkId(5, 5) }

DistPathArgs ==
    { None, Some(<<"x">>), Some(PyStr(5)), Some(MkPath(<<10, 25>>)),
      Some(MkPath(<<10, 17, 25>>)), Some(MkPath(<<25, 17, 10>>)) }

InitDist ==
    \E entries \in SUBSET DistLinkArgs, id \in DistOdArgs,
       path \in DistPathArgs, gauge \in {None, GaugeA, GaugeM} :
        /\ ods = [r \in OdRefs |->
                    IF r = "rail" THEN OD(id, R(500, 1), path, gauge, None)
                    ELSE OD(id, Zero, None, None, None)]
        /\ net = [BaseModalNetwork EXCEPT
                    !.links = LinksTable(entries),
                    !.paths = IF path = None THEN EmptyDict
                              ELSE DictPut(EmptyDict, _get_safe_id(id),
                                           Path(id, path, gauge))]
        /\ call = [op |-> "OD", raised |-> FALSE, ret |-> None]
        /\ old = ods
        /\ tons = NoTons
        /\ link_tons = NoLinkTons
        /\ ncalls = 0
        /\ cost = None

\* rail.calc_distance(net.get_links())
CalcDistance ==
    /\ ods' = [ods EXCEPT !["rail"] = OD_calc_distance(@, net.links)]
    /\ call' = [op |-> "calc_distance", raised |-> FALSE, ret |-> None]
    /\ old' = ods
    /\ UNCHANGED <<net, cost, tons, link_tons, ncalls>>

\* net.get_path_distance(rail)
GetPathDistance ==
    LET res == get_path_distance(net, ods["rail"])
    IN  /\ call' = [op |-> "get_path_distance", raised |-> res.raised,
                    ret |-> res.ret]
        /\ old' = ods
        /\ UNCHANGED <<net, cost, ods, tons, link_tons, ncalls>>

NextDist == CalcDistance \/ GetPathDistance

SpecDist == InitDist /\ [][NextDist]_vars

-----------------------------------------------------------------------------
(* SpecOd: a network that holds some OD pairs, each with tons, and is     *)
(* asked for OD pairs by id and category.                                 *)

OdIdArgs == { MkId(10, 25), MkId(3, 7), MkId(5, 5) }

OdCategoryArgs == { 1, 2, 3 }

\* self.od_pairs of a network holding an OD pair for each (id, category) of
\* pairs
OdPairsTable(pairs) ==
    [id \in {e[1] : e \in pairs} |->
        [c \in {e[2] : e \in {x \in pairs : x[1] = id}} |->
            OD(id, R(1000, 1), None, None, c)]]

InitOd ==
    \E pairs \in SUBSET ({MkId(10, 25), MkId(3, 7)} \X {1, 2}) :
        /\ net = [BaseModalNetwork EXCEPT !.od_pairs = OdPairsTable(pairs)]
        /\ call = [op |-> "build", raised |-> FALSE, ret |-> None,
                   id_od |-> None, category_od |-> 0]
        /\ old = net
        /\ ods = NoOds
        /\ tons = NoTons
        /\ link_tons = NoLinkTons
        /\ ncalls = 0
        /\ cost = None

\* net.get_od(id_od, category_od)
GetOd ==
    \E id_od \in OdIdArgs, category_od \in OdCategoryArgs :
        LET res == get_od(net, id_od, category_od)
        IN  /\ net' = res.self
            /\ call' = [op |-> "get_od", raised |-> res.raised,
                        ret |-> res.ret, id_od |-> Some(id_od),
                        category_od |-> category_od]
            /\ old' = net
            /\ UNCHANGED <<ods, tons, link_tons, ncalls, cost>>

NextOd == GetOd

SpecOd == InitOd /\ [][NextOd]_vars

-----------------------------------------------------------------------------
(* SpecTonKm: a network with the links 10-17 and 17-25, each with tons,   *)
(* and the OD pair 10-25 over them, with tons and its distance calculated *)
(* from the links; tons are added to the OD pair and the total ton-km of  *)
(* the network is asked.                                                  *)

TonKmLinkTons == { Zero, R(999, 1), R(1000, 1), R(1001, 1), R(1002, 1) }

TonKmOdTons == { Zero, R(1000, 1) }

InitTonKm ==
    \E t1 \in TonKmLinkTons, t2 \in TonKmLinkTons, ton \in TonKmOdTons :
        LET links == [id \in {MkId(10, 17), MkId(17, 25)} |->
                        [g \in {GaugeA} |->
                            IF id = MkId(10, 17)
                            THEN Link(id, R(50, 1), GaugeA, t1)
                            ELSE Link(id, R(80, 1), GaugeA, t2)]]
            od == OD(MkId(10, 25), ton, Some(MkPath(<<10, 17, 25>>)), GaugeA, 1)
        IN  /\ net = [BaseModalNetwork EXCEPT
                        !.links = links,
                        !.od_pairs = DictPut(EmptyDict, od.id,
                                        DictPut(EmptyDict, 1,
                                                OD_calc_distance(od, links)))]
            /\ call = [op |-> "build", raised |-> FALSE, error |-> "",
                       ret |-> None]
            /\ old = net
            /\ ods = NoOds
            /\ tons = NoTons
            /\ link_tons = NoLinkTons
            /\ ncalls = 0
            /\ cost = None

\* net.get_od("10-25", 1).add_original_ton(ton)
NetAddOriginalTon ==
    \E ton \in {R(1, 1), R(1000, 1)} :
        /\ ncalls < MaxCalls
        /\ ncalls' = ncalls + 1
        /\ net' = [net EXCEPT !.od_pairs[MkId(10, 25)][1] =
                                  add_original_ton(@, ton)]
        /\ call' = [op |-> "add_original_ton", raised |-> FALSE,
                    error |-> "", ret |-> None]
        /\ old' = net
        /\ UNCHANGED <<ods, tons, link_tons, cost>>

\* net.get_total_ton_km()
GetTotalTonKm ==
    LET res == get_total_ton_km(net)
    IN  /\ call' = [op |-> "get_total_ton_km", raised |-> res.raised,
                    error |-> res.error, ret |-> res.ret]
        /\ old' = net
        /\ UNCHANGED <<net, ods, tons, link_tons, ncalls, cost>>

NextTonKm == NetAddOriginalTon \/ GetTotalTonKm

SpecTonKm == InitTonKm /\ [][NextTonKm]_vars

-----------------------------------------------------------------------------
(* SpecCost: a railway network with the links 1-2 and 2-3 and an OD pair  *)
(* over each, after the simple assignment of both OD pairs; a cost object *)
(* is built for it and the two cost breakdowns are computed.              *)

RailParams ==
    [wagon_capacity |-> R(2, 1), wagon_weight |-> One,
     locomotive_capacity |-> R(4, 1), locomotive_weight |-> R(2, 1),
     wagon_eac |-> One, locomotive_eac |-> R(3, 1),
     fuel_cost_by_km |-> One, lubricants_fuel_ratio |-> R(1, 2),
     maintenance_by_locomotive |-> One, maintenance_by_wagon |-> One,
     manpower_cost_by_loc_hour |-> One,
     yearly_wages_by_turnout |-> One,
     turnout_freq |-> R(2, 1), turnout_freq_max_density |-> R(4, 1),
     coef_a_track_cost |-> One, coef_b_track_cost |-> One,
     useful_life_track |-> R(2, 1),
     gross_tk_in_hq_track_lifetime |-> R(16, 1),
     interest_rate |-> One, high_quality_track_price |-> R(10, 1),
     coef_a_track_maint_cost |-> One, coef_b_track_maint_cost |-> One,
     coef_a_notrack_maint_cost |-> Zero, coef_b_notrack_maint_cost |-> One,
     net_to_gross_factor |-> R(2, 1), main_min_density |-> One]

\* tons of an OD pair and of the link it goes over
CostTons == { Zero, R(1, 20), R(1, 10), R(2, 1), R(4, 1) }

\* the network the builder leaves: the links 1-2 (of distance d) and 2-3,
\* the OD pairs 1-2 and 2-3 with t1 and t2 tons, fleets without service
BuiltRailwayNetwork(d, t1, t2) ==
    LET links == [id \in {MkId(1, 2), MkId(2, 3)} |->
                    [g \in {GaugeA} |->
                        IF id = MkId(1, 2)
                        THEN Link(id, d, GaugeA, t1)
                        ELSE Link(id, R(2, 1), GaugeA, t2)]]
        od(id, t, p) == OD_calc_distance(OD(id, t, Some(p), GaugeA, 1), links)
    IN  [RailwayNetwork EXCEPT
            !.params = RailParams,
            !.links = links,
            !.od_pairs =
                [id \in {MkId(1, 2), MkId(2, 3)} |->
                    [c \in {1} |->
                        IF id = MkId(1, 2)
                        THEN od(id, t1, MkPath(<<1, 2>>))
                        ELSE od(id, t2, MkPath(<<3, 2>>))]],
            !.wagons = RollingMaterial(One, R(2, 1), R(2, 1), R(1, 2)),
            !.locoms = RollingMaterial(One, R(4, 1), R(2, 1), One)]

\* the network and the call after calc_simple_mobility_cost gave res
AssignedNet(res) ==
    /\ net = res.self
    /\ call = [op |-> "calc_simple_mobility_cost",
               raised |-> res.raised, error |-> res.error, ret |-> None]

InitCost ==
    \E d \in {One, R(2, 1)}, t1 \in CostTons, t2 \in CostTons :
        /\ AssignedNet(calc_simple_mobility_cost(BuiltRailwayNetwork(d, t1, t2)))
        /\ cost = None
        /\ old = net
        /\ ods = NoOds
        /\ tons = NoTons
        /\ link_tons = NoLinkTons
        /\ ncalls = 0

\* cost = RailwayNetworkCost(net)
Built(res) ==
    /\ cost' = res.obj
    /\ call' = [op |-> "RailwayNetworkCost", raised |-> res.raised,
                error |-> res.error, ret |-> None]

BuildCost ==
    /\ Built(RailwayNetworkCost(<<net>>))
    /\ old' = net
    /\ UNCHANGED <<net, ods, tons, link_tons, ncalls>>

\* cost.cost_mobility()
CostMobility ==
    /\ cost # None
    /\ call' = [op |-> "cost_mobility", raised |-> FALSE, error |-> "",
                ret |-> cost_mobility(cost[1], net)]
    /\ old' = net
    /\ UNCHANGED <<net, cost, ods, tons, link_tons, ncalls>>

\* cost.cost_infrast()
CostedInfrast(res) ==
    /\ net' = res.rn
    /\ call' = [op |-> "cost_infrast", raised |-> FALSE, error |-> "",
                ret |-> res.ret]

CostInfrast ==
    /\ cost # None
    /\ CostedInfrast(cost_infrast(cost[1], net))
    /\ old' = net
    /\ UNCHANGED <<cost, ods, tons, link_tons, ncalls>>

NextCost == BuildCost \/ CostMobility \/ CostInfrast

SpecCost == InitCost /\ [][NextCost]_vars

-----------------------------------------------------------------------------
(* SpecRoad: a roadway network with the links 1-2 and 2-3 and an OD pair  *)
(* over each; a cost object is built for it and the two cost breakdowns   *)
(* are computed.                                                          *)

RoadParams ==
    [mobility_cost_tk |-> R(3, 1),
     coef_a_infrast_cost |-> R(2, 1), coef_b_infrast_cost |-> R(1, 2)]

InitRoad ==
    \E d \in {One, R(2, 1)}, t1 \in CostTons, t2 \in CostTons :
        /\ net = LET rail == BuiltRailwayNetwork(d, t1, t2)
                 IN  [RoadwayNetwork EXCEPT !.params = RoadParams,
                                            !.links = rail.links,
                                            !.od_pairs = rail.od_pairs]
        /\ cost = None
        /\ call = [op |-> "build", raised |-> FALSE, error |-> "",
                   ret |-> None]
        /\ old = net
        /\ ods = NoOds
        /\ tons = NoTons
        /\ link_tons = NoLinkTons
        /\ ncalls = 0

\* cost = RoadwayNetworkCost(net)
BuildRoadCost ==
    LET res == BaseNetworkCost(net)
    IN  /\ cost' = res.obj
        /\ call' = [op |-> "RoadwayNetworkCost", raised |-> res.raised,
                    error |-> res.error, ret |-> None]
        /\ old' = net
        /\ UNCHANGED <<net, ods, tons, link_tons, ncalls>>

\* cost.cost_mobility()
RoadCostMobility ==
    /\ cost # None
    /\ LET res == Road_cost_mobility(cost[1], net)
       IN  call' = [op |-> "cost_mobility", raised |-> res.raised,
                    error |-> res.error, ret |-> res.ret]
    /\ old' = net
    /\ UNCHANGED <<net, cost, ods, tons, link_tons, ncalls>>

\* cost.cost_infrast()
RoadCostInfrast ==
    /\ cost # None
    /\ LET res == Road_cost_infrast(cost[1], net)
       IN  /\ net' = res.rn
           /\ call' = [op |-> "cost_infrast", raised |-> res.raised,
                       error |-> res.error, ret |-> res.ret]
    /\ old' = net
    /\ UNCHANGED <<cost, ods, tons, link_tons, ncalls>>

NextRoad == BuildRoadCost \/ RoadCostMobility \/ RoadCostInfrast

SpecRoad == InitRoad /\ [][NextRoad]_vars

-----------------------------------------------------------------------------
(* SpecRegroup: on a railway network after simple assignment the trains   *)
(* of a link are regrouped, and a regroup is reverted right after it with  *)
(* the same link and the same number of locomotives.                       *)

InitRegroup ==
    \E d \in {One, R(2, 1)}, t1 \in CostTons, t2 \in CostTons :
        /\ net = calc_simple_mobility_cost(BuiltRailwayNetwork(d, t1, t2)).self
        /\ call = [op |-> "calc_simple_mobility_cost", link |-> << >>,
                   idle_locs |-> Zero, before |-> << >>]
        /\ old = net
        /\ cost = None
        /\ ods = NoOds
        /\ tons = NoTons
        /\ link_tons = NoLinkTons
        /\ ncalls = 0

\* net._regroup_link(net.links[id][gauge], idle_locs)
RegroupLink ==
    \E k \in LinkKeys(net), u \in 0..MaxLocs :
        /\ ncalls < MaxRegroups
        /\ ncalls' = ncalls + 1
        /\ net' = _regroup_link(net, k, R(u, 1))
        /\ call' = [op |-> "_regroup_link", link |-> k, idle_locs |-> R(u, 1),
                    before |-> << >>]
        /\ old' = net
        /\ UNCHANGED <<cost, ods, tons, link_tons>>

\* net._revert_regroup_link(link, idle_locs) of the regroup just made;
\* before is the network before that regroup
RevertRegroupLink ==
    /\ call.op = "_regroup_link"
    /\ net' = _revert_regroup_link(net, call.link, call.idle_locs)
    /\ call' = [op |-> "_revert_regroup_link", link |-> call.link,
                idle_locs |-> call.idle_locs, before |-> old]
    /\ old' = net
    /\ UNCHANGED <<cost, ods, tons, link_tons, ncalls>>

NextRegroup == RegroupLink \/ RevertRegroupLink

SpecRegroup == InitRegroup /\ [][NextRegroup]_vars

-----------------------------------------------------------------------------
(* SpecPass: on a railway network the builder has filled, the simple      *)
(* assignment and the regrouping pass are called.                         *)

InitPass ==
    \E d \in {One, R(2, 1)}, t1 \in CostTons, t2 \in CostTons :
        /\ net = BuiltRailwayNetwork(d, t1, t2)
        /\ call = [op |-> "build", raised |-> FALSE, error |-> ""]
        /\ old = net
        /\ cost = None
        /\ ods = NoOds
        /\ tons = NoTons
        /\ link_tons = NoLinkTons
        /\ ncalls = 0

\* net.calc_simple_mobility_cost()
\* the network and the call after the method op of the network gave res
Called(op, res) ==
    /\ net' = res.self
    /\ call' = [op |-> op, raised |-> res.raised, error |-> res.error]

CalcSimpleMobilityCost ==
    /\ ncalls < MaxCalls
    /\ ncalls' = ncalls + 1
    /\ Called("calc_simple_mobility_cost", calc_simple_mobility_cost(net))
    /\ old' = net
    /\ UNCHANGED <<cost, ods, tons, link_tons>>

\* net.calc_optimized_mobility_cost()
CalcOptimizedMobilityCost ==
    /\ Called("calc_optimized_mobility_cost", calc_optimized_mobility_cost(net))
    /\ old' = net
    /\ UNCHANGED <<cost, ods, tons, link_tons, ncalls>>

NextPass == CalcSimpleMobilityCost \/ CalcOptimizedMobilityCost

SpecPass == InitPass /\ [][NextPass]_vars

-----------------------------------------------------------------------------
(* SpecAssign: one OD pair is assigned to a railway network whose links    *)
(* are 1-2 and 2-3; its path goes some times over the absent link 1-3 and  *)
(* some times over a present link, in either order, with or without gauge. *)

\* the nodes of a path of a absent links (1-3) and then b present links
AbsentFirstNodes(a, b) ==
    LET e == IF a % 2 = 0 THEN 1 ELSE 3
    IN  [i \in 1..(a + 1) |-> IF i % 2 = 1 THEN 1 ELSE 3] \o
        [j \in 1..b |-> IF j % 2 = 1 THEN 2 ELSE e]

\* the nodes of a path of b present links (1-2) and then a absent links
PresentFirstNodes(a, b) ==
    [i \in 1..(b + 1) |-> IF (b + 1 - i) % 2 = 0 THEN 1 ELSE 2] \o
    [j \in 1..a |-> IF j % 2 = 1 THEN 3 ELSE 1]

AssignPathNodes ==
    { AbsentFirstNodes(a, b) : a \in 0..MaxAbsentLinks,
                               b \in 0..MaxPresentLinks } \cup
    { PresentFirstNodes(a, b) : a \in 0..MaxAbsentLinks,
                                b \in 0..MaxPresentLinks }

InitAssign ==
    \E nodes \in AssignPathNodes, gauge \in {GaugeA, None} :
        /\ net = BuiltRailwayNetwork(One, Zero, Zero)
        /\ call = [op |-> "build", raised |-> FALSE, error |-> "",
                   od |-> OD_calc_distance(
                            OD(MkId(1, 2), R(2, 1), Some(MkPath(nodes)),
                               gauge, 1),
                            net.links)]
        /\ old = net
        /\ cost = None
        /\ ods = NoOds
        /\ tons = NoTons
        /\ link_tons = NoLinkTons
        /\ ncalls = 0

\* net._calculate_mobility_od(od)
CalculateMobilityOd ==
    /\ call.op = "build"
    /\ LET res == _calculate_mobility_od(net, call.od)
       IN  /\ net' = res.self
           /\ call' = [op |-> "_calculate_mobility_od",
                       raised |-> res.raised, error |-> res.error,
                       od |-> call.od]
    /\ old' = net
    /\ UNCHANGED <<cost, ods, tons, link_tons, ncalls>>

NextAssign == CalculateMobilityOd

SpecAssign == InitAssign /\ [][NextAssign]_vars

-----------------------------------------------------------------------------
(* SpecIter: a network holds OD pairs of up to three ids in up to two      *)
(* categories each and links of the same ids in up to two gauges each;     *)
(* its two iterators are called with and without a limit.                  *)

IterIds == { MkId(1, 2), MkId(2, 3), MkId(1, 3) }

\* the categories (and, for the links, the gauges) stored under each id
IterShapes == [IterIds -> SUBSET {1, 2}]

IterGauge(c) == IF c = 1 THEN GaugeA ELSE GaugeM

LimitArgs == {None} \cup { Some(n) : n \in 0..MaxLimit }

InitIter ==
    \E sh \in IterShapes :
        /\ net = [BaseModalNetwork EXCEPT
                    !.od_pairs =
                        [id \in {i \in IterIds : sh[i] # {}} |->
                            [c \in sh[id] |-> OD(id, One, None, None, c)]],
                    !.links =
                        [id \in {i \in IterIds : sh[i] # {}} |->
                            [g \in {IterGauge(c) : c \in sh[id]} |->
                                Link(id, One, g, One)]]]
        /\ call = [op |-> "build", limit |-> None, ret |-> << >>]
        /\ old = net
        /\ cost = None
        /\ ods = NoOds
        /\ tons = NoTons
        /\ link_tons = NoLinkTons
        /\ ncalls = 0

\* list(net.iter_od_pairs(limit))
IterOdPairs ==
    \E limit \in LimitArgs :
        /\ call' = [op |-> "iter_od_pairs", limit |-> limit,
                    ret |-> iter_od_pairs(net, limit)]
        /\ old' = net
        /\ UNCHANGED <<net, cost, ods, tons, link_tons, ncalls>>

\* list(net.iter_links(limit))
IterLinks ==
    \E limit \in LimitArgs :
        /\ call' = [op |-> "iter_links", limit |-> limit,
                    ret |-> iter_links(net, limit)]
        /\ old' = net
        /\ UNCHANGED <<net, cost, ods, tons, link_tons, ncalls>>

NextIter == IterOdPairs \/ IterLinks

SpecIter == InitIter /\ [][NextIter]_vars

-----------------------------------------------------------------------------
(* SpecInfrast: the networks of SpecCost and of SpecRoad, each with the    *)
(* calls of its own cost class.                                            *)

IsRail(n) == "wagons" \in DOMAIN n

InitInfrast == InitCost \/ InitRoad

NextInfrast == (IsRail(net) /\ NextCost) \/ (~IsRail(net) /\ NextRoad)

SpecInfrast == InitInfrast /\ [][NextInfrast]_vars

-----------------------------------------------------------------------------
(* SpecRegrouping: the networks of SpecPass with the calls of the simple   *)
(* assignment and of the regrouping pass, and the networks of SpecRegroup  *)
(* with the regroups and reverts the pass is made of.                      *)

\* the call is one of SpecRegroup: it names its link
OfLink(c) == "link" \in DOMAIN c

InitRegrouping == InitPass \/ InitRegroup

NextRegrouping == (~OfLink(call) /\ NextPass) \/ (OfLink(call) /\ NextRegroup)

SpecRegrouping == InitRegrouping /\ [][NextRegrouping]_vars

-----------------------------------------------------------------------------
(* Claims on SpecPath *)

rail == ods["rail"]

road == ods["road"]

\* C1: the id built from "a-b" and the one built from "b-a" are the same
\* string, the smaller integer first; _get_safe_id leaves its own result as
\* it is; every link id of _create_links_list is the pair of consecutive
\* path nodes with the smaller node first, in either direction of travel.
C1_CanonicalIds ==
    /\ rail.id = road.id
    /\ \E a \in Nodes, b \in Nodes : a <= b /\ rail.id = MkId(a, b)
    /\ call.op = "OD" =>
          \E a \in Nodes, b \in Nodes :
              /\ call.id = MkId(a, b)
              /\ rail.id = MkId(Min(a, b), Max(a, b))
    /\ _get_safe_id(rail.id) = rail.id
    /\ rail.path_nodes # None =>
          /\ Len(rail.links) = Max(Len(rail.path_nodes[1]) - 1, 0)
          /\ \A i \in 1..Len(rail.links) :
                LET node_a == rail.path_nodes[1][i]
                    node_b == rail.path_nodes[1][i + 1]
                IN  rail.links[i] = MkId(Min(node_a, node_b), Max(node_a, node_b))

\* C1 witness: an OD pair built from "10-9" has id "9-10", and its path
\* runs from the larger node to the smaller one over two links.
C1_Witness ==
    /\ call.op = "OD"
    /\ call.id = MkId(10, 9)
    /\ rail.id = MkId(9, 10)
    /\ Len(rail.links) = 2
    /\ rail.path_nodes[1][1] > rail.path_nodes[1][3]

\* the path text is a "-"-separated list of at least two integers
PathHasTwoNodes(od) ==
    Truthy(od.path) /\ AllInt(od.path[1]) /\ Len(PySplit(od.path[1])) >= 2

\* C10 as stated: a declared path (path and gauge set) of an OD pair that is
\* not intrazone comes with a non-empty link list.
C10_DeclaredPathHasLinks ==
    (has_declared_path(rail) /\ ~is_intrazone(rail)) => Len(rail.links) > 0

\* C10 amended: for an OD pair that is not intrazone and has a declared
\* path, the link list is non-empty exactly when the path text is a list of
\* at least two integers, and then it has one link per consecutive pair of
\* nodes; any other declared path (a "not found" text, a single node, a
\* malformed list) has an empty link list.
C10_LinksIffPathNodes ==
    (has_declared_path(rail) /\ ~is_intrazone(rail)) =>
        /\ Len(rail.links) > 0 <=> PathHasTwoNodes(rail)
        /\ PathHasTwoNodes(rail) =>
              /\ has_operable_path(rail)
              /\ Len(rail.links) = Len(PySplit(rail.path[1])) - 1

\* C10 witness: after set_path, a declared path with links replaced a
\* declared path without.
C10_Witness ==
    /\ call.op = "set_path"
    /\ has_declared_path(rail) /\ ~is_intrazone(rail)
    /\ PathHasTwoNodes(rail) /\ Len(rail.links) = 2
    /\ has_declared_path(old["rail"]) /\ Len(old["rail"].links) = 0

-----------------------------------------------------------------------------
(* Claims on SpecTons and SpecTonsAny *)

\* original and derived tons of both ledgers
TotalTons(ts) ==
    RAdd(RAdd(ts["A"].original, ts["A"].derived),
         RAdd(ts["B"].original, ts["B"].derived))

\* no original or derived tons below the bound
NoTonsBelow(ts, bound) ==
    \A r \in TonRefs : RLe(bound, ts[r].original) /\ RLe(bound, ts[r].derived)

\* C2: with a coefficient in [0, 1] and allow_original true or false, the sum
\* of the original and derived tons of the two ledgers is the same before
\* and after derive.
C2_DeriveConservesTons ==
    call.op = "derive" => TotalTons(tons) = TotalTons(old)

\* C2 witness: a derive that moved original tons one way and returned
\* derived tons the other way.
C2_Witness ==
    /\ call.op = "derive" /\ ~call.raised
    /\ RLt(Zero, call.ret[1][1]) /\ RLt(Zero, call.ret[1][2])
    /\ RLt(Zero, TotalTons(tons))

\* C3: a derive that completes returns (toDerive, toReturn), toReturn being
\* self's derived tons before the call and toDerive being
\* (self.original + other.derived) * c - other.derived, or 0 when
\* allow_original is false; afterwards self.original is lower by toDerive,
\* self.derived is 0, other.derived is higher by toDerive and other.original
\* higher by toReturn. A(1000).derive(B(0), 0.3) returns (300, 0) and leaves
\* A.original = 700 and B.derived = 300.
C3_DeriveResult ==
    (call.op = "derive" /\ ~call.raised) =>
        LET self == old[call.self]
            other == old[call.other]
            toReturn == self.derived
            toDerive == IF call.allow_original
                        THEN RSub(RMul(RAdd(self.original, other.derived), call.coeff),
                                  other.derived)
                        ELSE Zero
        IN  /\ call.ret = Some(<<toDerive, toReturn>>)
            /\ tons[call.self].original = RSub(self.original, toDerive)
            /\ tons[call.self].derived = Zero
            /\ tons[call.other].derived = RAdd(other.derived, toDerive)
            /\ tons[call.other].original = RAdd(other.original, toReturn)
            /\ (/\ self.original = R(1000, 1) /\ self.derived = Zero
                /\ other.original = Zero /\ other.derived = Zero
                /\ call.coeff = R(3, 10) /\ call.allow_original)
               => /\ call.ret = Some(<<R(300, 1), Zero>>)
                  /\ tons[call.self].original = R(700, 1)
                  /\ tons[call.other].derived = R(300, 1)

\* C3 witness: A(original=1000).derive(B(original=0), 0.3) has returned.
C3_Witness ==
    /\ call.op = "derive" /\ ~call.raised /\ call.self = "A"
    /\ call.coeff = R(3, 10) /\ call.allow_original
    /\ old["A"].original = R(1000, 1) /\ old["A"].derived = Zero
    /\ old["B"].original = Zero /\ old["B"].derived = Zero
    /\ call.ret = Some(<<R(300, 1), Zero>>)

\* C3 witness of the other case: allow_original false, derived tons returned.
C3_WitnessNotAllowed ==
    /\ call.op = "derive" /\ ~call.raised /\ ~call.allow_original
    /\ call.coeff # Zero /\ RLt(Zero, old[call.self].original)
    /\ RLt(Zero, call.ret[1][2])

\* C4: after any sequence of add_original(ton >= 0), derive with a
\* coefficient in [0, 1], project(f > 0) and revert_project, the original
\* and the derived tons of every ledger are >= 0.
C4_TonsNonNegative == NoTonsBelow(tons, Zero)

\* C4 witness: a ledger that holds derived tons and has given away all its
\* original tons, after a projection was reverted.
C4_Witness ==
    /\ call.op = "revert_project"
    /\ call.projection_factor # One
    /\ \E r \in TonRefs : tons[r].original = Zero /\ RLt(Zero, tons[r].derived)

\* C5: derive with any coefficient, on ledgers holding no negative tons,
\* either raises and leaves both ledgers as they were, or completes with no
\* original or derived tons below zero by more than 0.01.
C5_DeriveRefusesNegative ==
    (call.op = "derive" /\ NoTonsBelow(old, Zero)) =>
        \/ call.raised /\ tons = old
        \/ ~call.raised /\ NoTonsBelow(tons, R(-1, 100))

\* C6: project(f), f > 0, directly followed by revert_project() on the same
\* ledger restores the original and derived tons the ledger had before
\* project and leaves the projection factor at 1.
C6_ProjectRoundTrip ==
    [][(/\ call.op = "project"
        /\ call'.op = "revert_project"
        /\ call'.self = call.self)
       => /\ tons'[call.self].original = old[call.self].original
          /\ tons'[call.self].derived = old[call.self].derived
          /\ tons'[call.self].projection_factor = One]_vars

\* C6 witness: a revert right after project(3) that divided original and
\* derived tons by 3.
C6_Witness ==
    /\ call.op = "revert_project" /\ call.after = "project"
    /\ call.projection_factor = R(3, 1)
    /\ RLt(Zero, tons[call.self].original) /\ RLt(Zero, tons[call.self].derived)
    /\ tons[call.self].original = RDiv(old[call.self].original, R(3, 1))

-----------------------------------------------------------------------------
(* Claims on SpecLink *)

\* the derived and the original tons held for the call's category and OD id
HeldDerived(lt) == LinkTons_get_derived(lt, Some(call.category), Some(call.id_od))

HeldOriginal(lt) == LinkTons_get_original(lt, Some(call.category), Some(call.id_od))

\* C7: a remove(N, category, od) that completes, on an entry holding D
\* derived and O original tons, leaves derived = max(D - N, 0) and
\* original = O - max(N - D, 0), each within the 0.01 of the snapping; the
\* original tons are left exactly as they were when N < D, and no derived
\* tons are left when N >= D.
C7_RemoveDerivedFirst ==
    (call.op = "remove" /\ ~call.raised) =>
        LET N == call.ton
            D == HeldDerived(old)
            O == HeldOriginal(old)
        IN  /\ Abs(HeldDerived(link_tons) - Max(D - N, 0)) <= Tol
            /\ Abs(HeldOriginal(link_tons) - (O - Max(N - D, 0))) <= Tol
            /\ N < D => HeldOriginal(link_tons) = O
            /\ N >= D => HeldDerived(link_tons) = 0

\* C7 witness: a remove that took all the derived tons and the rest from
\* the original tons, which are left above the tolerance.
C7_Witness ==
    /\ call.op = "remove" /\ ~call.raised
    /\ HeldDerived(old) = 4 * Tol /\ HeldOriginal(old) = 8 * Tol
    /\ call.ton = 4 * Tol + 1
    /\ HeldDerived(link_tons) = 0 /\ HeldOriginal(link_tons) = 8 * Tol - 1

\* C7 witness of the other case: a remove that took derived tons only.
C7_WitnessDerivedOnly ==
    /\ call.op = "remove" /\ ~call.raised
    /\ call.ton = 3 * Tol /\ HeldDerived(old) = 8 * Tol /\ HeldOriginal(old) > 0
    /\ HeldDerived(link_tons) = 5 * Tol /\ HeldOriginal(link_tons) = HeldOriginal(old)

-----------------------------------------------------------------------------
(* Claims on SpecOdTon *)

\* C8: derive_ton raises exactly when the two OD pairs differ in id or in
\* category, and then the original and derived tons of both (and every
\* other field) are as before the call.
C8_DeriveTonIdentityCheck ==
    call.op = "derive_ton" =>
        LET self == old[call.self]
            other == old[call.other]
        IN  /\ call.raised <=>
                  (self.id # other.id \/ self.rail_category # other.rail_category)
            /\ call.raised => ods = old

\* C8 witness: derive_ton has raised between two OD pairs with the same id,
\* a different category and tons to derive.
C8_Witness ==
    /\ call.op = "derive_ton" /\ call.raised
    /\ rail.id = road.id /\ rail.rail_category # road.rail_category
    /\ RLt(Zero, ods[call.self].original_ton) /\ call.coeff = R(3, 10)

\* C8 witness of the other case: same id and category, and tons derived.
C8_WitnessSameIdentity ==
    /\ call.op = "derive_ton" /\ ~call.raised
    /\ rail.id = road.id /\ rail.rail_category = road.rail_category
    /\ RLt(Zero, call.ret[1][1])

\* C9: the total tons of every OD pair, original plus derived, are >= 0
\* after any sequence of add_original_ton(ton >= 0) and derive_ton with any
\* coefficient.
C9_TotalTonNonNegative ==
    \A r \in OdRefs : RLe(Zero, get_ton(ods[r]))

-----------------------------------------------------------------------------
(* Claims on SpecDist *)

\* the distances of the links of a path that a network has for a gauge
RECURSIVE PresentDistance(_, _, _)
PresentDistance(links, gauge, network_links) ==
    IF links = << >> THEN Zero
    ELSE RAdd(IF HasLink(network_links, Head(links), gauge)
              THEN network_links[Head(links)][gauge].dist
              ELSE Zero,
              PresentDistance(Tail(links), gauge, network_links))

\* C11: the distance of an OD pair is the sum of the distances of the links
\* of its path that the network has for its gauge, a missing link or gauge
\* being skipped (10-17-25 over links of 50 and 80 gives 130); an intrazone
\* OD pair has distance 0 and is_intrazone() true.
C11_DistanceOfPresentLinks ==
    /\ call.op = "calc_distance" =>
          /\ rail.dist = Some(PresentDistance(rail.links, rail.gauge, net.links))
          /\ rail.nodes[1] = rail.nodes[2] =>
                is_intrazone(rail) /\ rail.dist = Some(Zero)
    /\ call.op = "get_path_distance" /\ ~call.raised =>
          call.ret = IF rail.nodes[1] = rail.nodes[2] THEN Some(Zero)
                     ELSE Some(PresentDistance(net.paths[rail.id].links,
                                               net.paths[rail.id].gauge,
                                               net.links))

\* 10-25 over 10-17-25 with both links: 130
C11_Witness ==
    /\ call.op = "calc_distance"
    /\ rail.path = Some(MkPath(<<10, 17, 25>>))
    /\ rail.links = <<MkId(10, 17), MkId(17, 25)>>
    /\ \A i \in 1..2 : HasLink(net.links, rail.links[i], rail.gauge)
    /\ rail.dist = Some(R(130, 1))

\* the same path in a network without the link 17-25 of the gauge: 50
C11_WitnessMissingLink ==
    /\ call.op = "get_path_distance"
    /\ rail.links = <<MkId(10, 17), MkId(17, 25)>>
    /\ HasLink(net.links, MkId(10, 17), rail.gauge)
    /\ ~HasLink(net.links, MkId(17, 25), rail.gauge)
    /\ call.ret = Some(R(50, 1))

\* an intrazone OD pair
C11_WitnessIntrazone ==
    /\ call.op = "calc_distance"
    /\ rail.id = MkId(5, 5)
    /\ rail.dist = Some(Zero)

-----------------------------------------------------------------------------
(* Claims on SpecOd *)

\* od_pairs holds an OD pair under the id and the category
HasOd(od_pairs, id_od, category_od) ==
    id_od \in DOMAIN od_pairs /\ category_od \in DOMAIN od_pairs[id_od]

\* C12: get_od(id, category) never fails and returns the OD pair stored
\* under (id, category), created first when the id is unknown and also when
\* the id is known but the category is not; an OD pair that already exists
\* is returned as it is, not replaced.
C12_GetOrCreate ==
    call.op = "get_od" =>
        LET id_od == call.id_od[1]
            category_od == call.category_od
        IN  /\ ~call.raised
            /\ HasOd(net.od_pairs, id_od, category_od)
            /\ call.ret = Some(net.od_pairs[id_od][category_od])
            /\ HasOd(old.od_pairs, id_od, category_od) =>
                  call.ret = Some(old.od_pairs[id_od][category_od])

-----------------------------------------------------------------------------
(* Claims on SpecTonKm *)

\* the sum of link tons x link distance
LinkTonKm(n) ==
    RSumValues([k \in LinkKeys(n) |->
                  RMul(n.links[k[1]][k[2]].ton, n.links[k[1]][k[2]].dist)])

\* the sum of OD tons x OD distance
OdTonKm(n) ==
    RSumValues([k \in OdKeys(n) |->
                  RMul(RAdd(n.od_pairs[k[1]][k[2]].original_ton,
                            n.od_pairs[k[1]][k[2]].derived_ton),
                       n.od_pairs[k[1]][k[2]].dist[1])])

\* the two totals are more than 0.1% (of the OD-based one) apart
DivergeOver01Percent(link_total, od_total) ==
    RLt(RMul(R(1, 1000), RAbs(od_total)), RAbs(RSub(link_total, od_total)))

\* C13: get_total_ton_km fails with the consistency error exactly when the
\* link-based total and the OD-based total diverge by more than 0.1%, and
\* otherwise returns the link-based total.
C13_TonKmCrossCheck ==
    call.op = "get_total_ton_km" =>
        IF DivergeOver01Percent(LinkTonKm(net), OdTonKm(net))
        THEN call.raised /\ call.error = "AssertionError"
        ELSE ~call.raised /\ call.ret = Some(LinkTonKm(net))

-----------------------------------------------------------------------------
(* Claims on SpecCost *)

MobilityComponents ==
    {"eac_wagon", "eac_locom", "fuel_and_lub", "maintenance", "manpower"}

InfrastComponents == {"eac_detour", "eac_track", "maintenance"}

\* every component and the total of a breakdown are 0.0
AllZero(breakdown) == \A name \in DOMAIN breakdown : breakdown[name] = Zero

\* C14: for a network whose total ton-km is 0, building the cost object and
\* computing the mobility and infrastructure breakdowns raises no exception
\* and every component and total equals 0.0.
C14_ZeroTrafficCostsZero ==
    (LinkTonKm(net) = Zero /\ OdTonKm(net) = Zero) =>
        /\ call.op = "RailwayNetworkCost" => ~call.raised
        /\ call.op \in {"cost_mobility", "cost_infrast"} =>
              ~call.raised /\ AllZero(call.ret)

\* the yearly cost behind each mobility component
MobilityYearCost(rn) ==
    LET num_wagons == RDiv(RAdd(rn.wagons.running_time, rn.wagons.idle_time),
                           rn.wagons.availability)
        num_locoms == RDiv(RAdd(rn.locoms.running_time, rn.locoms.idle_time),
                           rn.locoms.availability)
        haul == IF rn.locoms.tons = Zero THEN Zero
                ELSE RDiv(rn.locoms.ton_km, rn.locoms.tons)
        fuel == RMul(RMul(rn.params.fuel_cost_by_km, haul), num_locoms)
    IN  [eac_wagon |-> RMul(rn.params.wagon_eac, num_wagons),
         eac_locom |-> RMul(rn.params.locomotive_eac, num_locoms),
         fuel_and_lub |-> RAdd(fuel, RMul(fuel, rn.params.lubricants_fuel_ratio)),
         maintenance |-> RAdd(RMul(rn.params.maintenance_by_locomotive, num_locoms),
                              RMul(rn.params.maintenance_by_wagon, num_wagons)),
         manpower |-> RMul(rn.params.manpower_cost_by_loc_hour,
                           RAdd(rn.locoms.running_time, rn.locoms.idle_time))]

\* the yearly cost behind each infrastructure component: the costs of the
\* links with load
InfrastYearCost(rn) ==
    [name \in InfrastComponents |->
        RSumValues([k \in {x \in LinkKeys(rn) :
                             RLt(Zero, rn.links[x[1]][x[2]].ton)} |->
                      LinkInfrastCost(rn, rn.links[k[1]][k[2]])[name]])]

\* a breakdown has the components named, each the yearly cost divided by
\* total ton-km, and a total that is their sum
DividedBreakdown(breakdown, year_cost, total_name, total_ton_km) ==
    /\ DOMAIN breakdown = DOMAIN year_cost \cup {total_name}
    /\ \A name \in DOMAIN year_cost :
          breakdown[name] = RDiv(year_cost[name], total_ton_km)
    /\ breakdown[total_name] =
          RSumValues([name \in DOMAIN year_cost |-> breakdown[name]])

\* C15: when the total ton-km held by a RailwayNetworkCost is <= 0.1 each of
\* the five mobility components, each of the three infrastructure components
\* and both totals are exactly 0.0; when it is > 0.1 each component is its
\* yearly cost divided by total ton-km and each total is the sum of its
\* components.
C15_RailNearZeroGuard ==
    /\ call.op = "cost_mobility" =>
          /\ DOMAIN call.ret = MobilityComponents \cup {"total_mobility"}
          /\ IF RLe(cost[1].total_ton_km, R(1, 10))
             THEN AllZero(call.ret)
             ELSE DividedBreakdown(call.ret, MobilityYearCost(net),
                                   "total_mobility", cost[1].total_ton_km)
    /\ call.op = "cost_infrast" =>
          /\ DOMAIN call.ret = InfrastComponents \cup {"total_infrastructure"}
          /\ IF RLe(cost[1].total_ton_km, R(1, 10))
             THEN AllZero(call.ret)
             ELSE DividedBreakdown(call.ret, InfrastYearCost(old),
                                   "total_infrastructure", cost[1].total_ton_km)

\* a total of 0.05 ton-km held, from a link that carries tons: all 0.0
C15_Witness ==
    /\ call.op = "cost_infrast"
    /\ cost[1].total_ton_km = R(1, 20)
    /\ \E k \in LinkKeys(net) : RLt(Zero, net.links[k[1]][k[2]].ton)
    /\ AllZero(call.ret)

\* the same for the mobility breakdown, the fleets being in service
C15_WitnessMobility ==
    /\ call.op = "cost_mobility"
    /\ cost[1].total_ton_km = R(1, 20)
    /\ RLt(Zero, MobilityYearCost(net).eac_locom)
    /\ AllZero(call.ret)

\* over 0.1 ton-km: components that are not 0.0
C15_WitnessDivided ==
    /\ call.op = "cost_infrast"
    /\ RLt(R(1, 10), cost[1].total_ton_km)
    /\ \A name \in InfrastComponents : RLt(Zero, call.ret[name])

C15_WitnessDividedMobility ==
    /\ call.op = "cost_mobility"
    /\ RLt(R(1, 10), cost[1].total_ton_km)
    /\ \A name \in MobilityComponents : RLt(Zero, call.ret[name])

-----------------------------------------------------------------------------
(* Claims on SpecRoad *)

\* C16: for a RoadwayNetworkCost whose total ton-km is non-positive or
\* <= 0.1, cost_mobility and cost_infrast return zero for every per-ton-km
\* value instead of raising a division error.
C16_RoadNearZeroGuard ==
    (call.op \in {"cost_mobility", "cost_infrast"}
        /\ RLe(cost[1].total_ton_km, R(1, 10))) =>
        ~call.raised /\ AllZero(call.ret[1])

-----------------------------------------------------------------------------
(* Claims on SpecRegroup *)

\* running and idle time of a fleet
FleetTime(rm) == <<rm.running_time, rm.idle_time>>

\* C18: _regroup_link(link, u) followed by _revert_regroup_link(link, u)
\* restores the idle capacity of the link and the running and idle time of
\* the locomotive and wagon fleets to their values before the regroup.
C18_RegroupRoundTrip ==
    call.op = "_revert_regroup_link" =>
        /\ \A k \in LinkKeys(net) :
              net.links[k[1]][k[2]].idle_capacity =
                  call.before.links[k[1]][k[2]].idle_capacity
        /\ FleetTime(net.locoms) = FleetTime(call.before.locoms)
        /\ FleetTime(net.wagons) = FleetTime(call.before.wagons)

\* a regroup of two locomotives that changed the link and both fleets, and
\* was reverted
C18_Witness ==
    /\ call.op = "_revert_regroup_link"
    /\ call.idle_locs = R(2, 1)
    /\ old.links[call.link[1]][call.link[2]].idle_capacity #
          net.links[call.link[1]][call.link[2]].idle_capacity
    /\ FleetTime(old.locoms) # FleetTime(net.locoms)
    /\ FleetTime(old.wagons) # FleetTime(net.wagons)

-----------------------------------------------------------------------------
(* Claims on SpecPass *)

\* a simple assignment has been made on the network
Assigned(n) == n.locoms.tons # Zero \/ n.wagons.tons # Zero

\* the total mobility cost of a network, computed by a cost object built
\* for it; None when the cost object cannot be built
TotalMobilityCost(n) ==
    LET c == BaseNetworkCost(n)
    IN  IF c.raised THEN None
        ELSE Some(cost_mobility(c.obj[1], n).total_mobility)

\* C17: on a network reached after simple assignment, one call of
\* calc_optimized_mobility_cost is made and the total mobility cost computed
\* after it is less than or equal to the one computed just before it.
C17_PassDoesNotRaiseCost ==
    (call.op = "calc_optimized_mobility_cost" /\ Assigned(old)) =>
        /\ ~call.raised
        /\ TotalMobilityCost(old) # None =>
              /\ TotalMobilityCost(net) # None
              /\ RLe(TotalMobilityCost(net)[1], TotalMobilityCost(old)[1])

\* the regroup the pass tries on a link: floor(idle capacity / locomotive
\* capacity) locomotives
PassRegroup(n, k) ==
    LET q == RDiv(n.links[k[1]][k[2]].idle_capacity,
                  n.params.locomotive_capacity)
    IN  _regroup_link(n, k, R(q[1] \div q[2], 1))

\* the pass as the rule describes it: the links one after the other, the
\* regroup of a link kept only if it makes the total mobility cost
\* strictly lower
RECURSIVE RulePass(_, _)
RulePass(n, keys) ==
    IF keys = << >> THEN n
    ELSE LET regrouped == PassRegroup(n, keys[1])
         IN  RulePass(IF RLt(TotalMobilityCost(regrouped)[1],
                             TotalMobilityCost(n)[1])
                      THEN regrouped ELSE n,
                      Tail(keys))

\* C19: the pass visits every (link id, gauge) entry once in link-table
\* order; for each it regroups floor(idle capacity / locomotive capacity)
\* locomotives and keeps the regroup only if the total mobility cost is
\* strictly lower, reverting it on a tie or a higher cost, and never comes
\* back to a link: the pass leaves the links and the fleets as the rule does.
C19_AcceptRevertRule ==
    (/\ call.op = "calc_optimized_mobility_cost"
     /\ Assigned(old)
     /\ TotalMobilityCost(old) # None) =>
        /\ ~call.raised
        /\ LET ruled == RulePass(old, LinkSeq(LinkKeys(old)))
           IN  /\ net.links = ruled.links
               /\ net.locoms = ruled.locoms
               /\ net.wagons = ruled.wagons

\* the links of the path of od whose lookup in the network n fails
AbsentLinks(n, od) ==
    { i \in 1..Len(od.links) : ~HasLink(n.links, od.links[i], od.gauge) }

\* the times the path of od goes over the link k = (id, gauge)
TimesOver(od, k) ==
    IF k[2] = od.gauge
    THEN Cardinality({ i \in 1..Len(od.links) : od.links[i] = k[1] })
    ELSE 0

\* C20: while one OD pair is assigned, a link/gauge of its path that is
\* absent from the network is reported and skipped and the other links of
\* the path receive the idle capacity of the locomotives; the assignment
\* fails only when more than MAX_EXCEPTIONS (50) lookups of the OD pair fail.
C20_MissingLinksBound ==
    call.op = "_calculate_mobility_od" =>
        LET od == call.od
            idle == add_freight_service(old.locoms, get_ton(od),
                                        get_dist(od)[1]).ret
        IN  /\ call.raised =>
                    Cardinality(AbsentLinks(old, od)) > MAX_EXCEPTIONS
            /\ ~call.raised =>
                    \A k \in LinkKeys(old) :
                        net.links[k[1]][k[2]].idle_capacity =
                            RAdd(old.links[k[1]][k[2]].idle_capacity,
                                 RMul(R(TimesOver(od, k), 1), idle))

\* 50 absent links and a present one after them, with a gauge
C20_FiftyThenPresent ==
    /\ call.op = "_calculate_mobility_od"
    /\ call.od.gauge # None
    /\ Cardinality(AbsentLinks(old, call.od)) = MAX_EXCEPTIONS
    /\ Len(call.od.links) > MAX_EXCEPTIONS
    /\ call.raised

\* the sum of f(od) over the OD pairs of the network n
SumOverOds(n, f(_)) ==
    RSumValues([k \in OdKeys(n) |-> f(n.od_pairs[k[1]][k[2]])])

\* one freight service of (tons, distance) per OD pair of n added to the
\* fleet: the tons and the ton-km the fleet has carried
FleetServed(before, after, n) ==
    LET ton(od) == get_ton(od)
        ton_km(od) == RMul(get_ton(od), get_dist(od)[1])
    IN  /\ after.tons = RAdd(before.tons, SumOverOds(n, ton))
        /\ after.ton_km = RAdd(before.ton_km, SumOverOds(n, ton_km))

\* every OD pair of before handled once: its freight service added to both
\* fleets, the idle capacity the locomotives return for it added to each
\* passage of its path over a link of its gauge
SimpleAssignmentMade(before, after) ==
    /\ FleetServed(before.wagons, after.wagons, before)
    /\ FleetServed(before.locoms, after.locoms, before)
    /\ \A k \in LinkKeys(before) :
          LET idle(od) ==
                  RMul(R(TimesOver(od, k), 1),
                       add_freight_service(before.locoms, get_ton(od),
                                           get_dist(od)[1]).ret)
          IN  after.links[k[1]][k[2]].idle_capacity =
                  RAdd(before.links[k[1]][k[2]].idle_capacity,
                       SumOverOds(before, idle))

\* C21: one call of calc_simple_mobility_cost handles every OD pair once
\* (its tons and distance one freight service for the wagons and one for the
\* locomotives, the idle capacity returned by the locomotives added to each
\* link passage of its path and gauge) and afterwards costs["mob"] holds the
\* mobility breakdown computed from the resulting state.
C21_SimpleAssignmentStep ==
    (call.op = "calc_simple_mobility_cost" /\ TotalMobilityCost(old) # None) =>
        /\ ~call.raised
        /\ SimpleAssignmentMade(old, net)
        /\ net.costs.mob # None
        /\ net.costs.mob[1].total_mobility = TotalMobilityCost(net)[1]

\* the assignments of C21 without the cost: they are made before the call
\* ends
C21_AssignmentsMade ==
    call.op = "calc_simple_mobility_cost" => SimpleAssignmentMade(old, net)

-----------------------------------------------------------------------------
(* Claims on the removal from one entry of a link ledger (SpecLink) *)

\* the entry of the ledger for a mode, category and OD id: None when the
\* ledger has no such key
Entry(lt, mode, category, id_od) ==
    IF category \in DOMAIN lt[mode] /\ id_od \in DOMAIN lt[mode][category]
    THEN Some(lt[mode][category][id_od])
    ELSE None

\* the tons an entry holds, an entry that is not there holding none
Held(e) == IF e = None THEN 0 ELSE e[1]

RemovedMode == IF call.op = "remove_original" THEN "original" ELSE "derived"

\* C22: _remove_ton of N tons on an entry holding E tons raises only when N
\* exceeds E by more than 0.01; when |N - E| <= 0.01 the entry is deleted and
\* reads 0; otherwise the entry is reduced by exactly N. An entry that
\* remains after a removal of N >= 0 that completed holds more than 0.01.
C22_RemovalTolerance ==
    call.op \in {"remove_original", "remove_derived"} =>
        LET N == call.ton
            E == Held(Entry(old, RemovedMode, call.category, call.id_od))
            left == Entry(link_tons, RemovedMode, call.category, call.id_od)
        IN  /\ call.raised <=> N - E > Tol
            /\ (~call.raised /\ Abs(N - E) <= Tol) => left = None
            /\ (~call.raised /\ Abs(N - E) > Tol) => left = Some(E - N)
            /\ (~call.raised /\ N >= 0 /\ left # None) => left[1] > Tol

\* C22 witness: a removal that left the entry just above the 0.01
C22_Witness ==
    /\ call.op \in {"remove_original", "remove_derived"}
    /\ ~call.raised
    /\ Entry(old, RemovedMode, call.category, call.id_od) = Some(5 * Tol - 1)
    /\ call.ton = 3 * Tol
    /\ Entry(link_tons, RemovedMode, call.category, call.id_od) =
           Some(2 * Tol - 1)

\* C22 witness: a removal of one step more than the entry holds, which
\* deleted the entry
C22_WitnessDeleted ==
    /\ call.op \in {"remove_original", "remove_derived"}
    /\ ~call.raised
    /\ Entry(old, RemovedMode, call.category, call.id_od) = Some(4 * Tol)
    /\ call.ton = 4 * Tol + 1
    /\ Entry(link_tons, RemovedMode, call.category, call.id_od) = None

\* C22 witness: a removal that raised
C22_WitnessRaised ==
    /\ call.op \in {"remove_original", "remove_derived"}
    /\ call.raised
    /\ call.ton = 8 * Tol
    /\ Entry(old, RemovedMode, call.category, call.id_od) = Some(4 * Tol)

\* the tons get() reports for every mode, category and OD id
Reported(lt) ==
    [m \in Modes |-> [c \in LinkCats |-> [o \in LinkOds |->
        LinkTons_get(lt, Some(c), Some(o), Some(m))]]]

\* C27: when remove(N, category, od) raises, the tons get() reports for
\* every mode, category and OD id are the same as before the call.
C27_FailedRemoveChangesNothing ==
    (call.op = "remove" /\ call.raised) => Reported(link_tons) = Reported(old)

-----------------------------------------------------------------------------
(* Claims on repeated calls (SpecTons) *)

\* the step repeats the derive that has just completed, with the same
\* objects and arguments
RepeatsDerive ==
    /\ call.op = "derive" /\ ~call.raised
    /\ call'.op = "derive"
    /\ call'.self = call.self /\ call'.other = call.other
    /\ call'.coeff = call.coeff
    /\ call'.allow_original = call.allow_original

\* C26: after A.derive(B, c) has completed, c in [0, 1], the same call made
\* again right away returns (0, 0) and changes neither ledger.
C26_DeriveIdempotent ==
    [][RepeatsDerive =>
          /\ ~call'.raised
          /\ call'.ret = Some(<<Zero, Zero>>)
          /\ tons' = tons]_vars

\* C26 witness: a derive with c = 0.3 that found its share already derived
\* to the other ledger and left both ledgers as they were
C26_Witness ==
    /\ call.op = "derive" /\ ~call.raised
    /\ call.coeff = R(3, 10) /\ call.allow_original
    /\ tons[call.other].derived = R(300, 1)
    /\ tons[call.self].original = R(700, 1)
    /\ call.ret = Some(<<Zero, Zero>>)
    /\ tons = old

-----------------------------------------------------------------------------
(* Claims on SpecIter *)

\* the entries of a table of dicts in iteration order across all ids
RECURSIVE Flatten(_)
Flatten(outer) ==
    IF outer = << >> THEN << >>
    ELSE DictValues(Head(outer)) \o Flatten(Tail(outer))

StoredEntries ==
    IF call.op = "iter_od_pairs" THEN Flatten(DictValues(net.od_pairs))
    ELSE Flatten(DictValues(net.links))

\* C25: with a limit n (0 included) iter_od_pairs and iter_links yield
\* exactly min(n, number of stored entries) entries, the first ones in
\* iteration order across all ids; with no limit they yield every entry once.
C25_IterationLimit ==
    call.op \in {"iter_od_pairs", "iter_links"} =>
        IF call.limit = None
        THEN call.ret = StoredEntries
        ELSE call.ret = SubSeq(StoredEntries, 1,
                               Min(call.limit[1], Len(StoredEntries)))

\* C25 for the limits other than 0
C25_PositiveLimit ==
    (call.op \in {"iter_od_pairs", "iter_links"} /\ call.limit # Some(0)) =>
        IF call.limit = None
        THEN call.ret = StoredEntries
        ELSE call.ret = SubSeq(StoredEntries, 1,
                               Min(call.limit[1], Len(StoredEntries)))

\* a limit of 0 on a table that holds entries yielded them all
C25_ZeroLimitYieldsAll ==
    /\ call.op = "iter_od_pairs"
    /\ call.limit = Some(0)
    /\ Len(call.ret) = 6

-----------------------------------------------------------------------------
(* Claims on SpecInfrast *)

\* the network n without its links of zero tonnage
WithoutUnloaded(n) ==
    [n EXCEPT !.links =
        [id \in {k[1] : k \in LoadedLinkKeys(n)} |->
            [g \in {k[2] : k \in {x \in LoadedLinkKeys(n) : x[1] = id}} |->
                n.links[id][g]]]]

\* the components summed over the links, by cost class
CostedComponents(n) == IF IsRail(n) THEN InfrastComponents ELSE {"eac_track"}

\* the infrastructure breakdown the cost object gives for the network n
InfrastBreakdown(n) ==
    IF IsRail(n) THEN cost_infrast(cost[1], n).ret
    ELSE Road_cost_infrast(cost[1], n).ret[1]

\* the breakdown the last call returned
ReturnedBreakdown == IF IsRail(net) THEN call.ret ELSE call.ret[1]

\* the sums are divided: always for a road, over 0.1 ton-km for a railway
SumsDivided == ~IsRail(net) \/ OverGuard(cost[1])

\* C23: in cost_infrast (rail: eac_detour, eac_track, maintenance; road:
\* eac_track) a link adds to the sums if and only if its tonnage is > 0 at
\* the call: the links with load are costed and their costs are what is
\* summed, a link of zero tonnage is not costed and the breakdown is the one
\* of the network without it.
C23_OnlyLoadedLinksCosted ==
    (call.op = "cost_infrast" /\ ~call.raised) =>
        /\ ReturnedBreakdown = InfrastBreakdown(WithoutUnloaded(old))
        /\ \A k \in LinkKeys(old), name \in CostedComponents(old) :
              RLt(Zero, old.links[k[1]][k[2]].ton)
                  <=> net.links[k[1]][k[2]][name] # None
        /\ \A k \in LinkKeys(old) \ LoadedLinkKeys(old) :
              net.links[k[1]][k[2]] = old.links[k[1]][k[2]]
        /\ SumsDivided =>
              \A name \in CostedComponents(old) :
                  ReturnedBreakdown[name] =
                      RDiv(RSumValues([k \in LoadedLinkKeys(old) |->
                                         net.links[k[1]][k[2]][name][1]]),
                           cost[1].total_ton_km)

\* C23 witness: a railway cost_infrast on a network with a link of zero
\* tonnage and a link with load, the first left without costs and the
\* second one costed
C23_Witness ==
    /\ call.op = "cost_infrast" /\ ~call.raised
    /\ IsRail(net)
    /\ OverGuard(cost[1])
    /\ old.links[MkId(1, 2)][GaugeA].ton = Zero
    /\ net.links[MkId(1, 2)][GaugeA].eac_detour = None
    /\ RLt(Zero, old.links[MkId(2, 3)][GaugeA].ton)
    /\ net.links[MkId(2, 3)][GaugeA].eac_detour # None
    /\ RLt(Zero, call.ret.eac_detour)

\* C23 witness for the road: the same network under a road cost_infrast
C23_WitnessRoad ==
    /\ call.op = "cost_infrast" /\ ~call.raised
    /\ ~IsRail(net)
    /\ old.links[MkId(1, 2)][GaugeA].ton = Zero
    /\ net.links[MkId(1, 2)][GaugeA].eac_track = None
    /\ net.links[MkId(2, 3)][GaugeA].eac_track # None
    /\ RLt(Zero, call.ret[1].eac_track)

-----------------------------------------------------------------------------
(* Claims on SpecCost: the breakdowns as functions of the state *)

\* the network n with the costs cost_infrast stored on its links taken off:
\* tons, distances, idle capacity, fleets, parameters and OD pairs are left
Uncosted(n) ==
    [n EXCEPT !.links =
        [id \in DOMAIN n.links |->
            [g \in DOMAIN n.links[id] |->
                [n.links[id][g] EXCEPT !.eac_detour = None,
                                       !.eac_track = None,
                                       !.maintenance = None]]]]

\* the breakdown the cost object self gives for the network n
BreakdownOf(op, self, n) ==
    IF op = "cost_mobility" THEN cost_mobility(self, n)
    ELSE cost_infrast(self, n).ret

\* C24: computing the mobility or the infrastructure breakdown changes no
\* tonnage, idle capacity, fleet time or parameter (nothing of the network
\* but the costs stored on its links); the breakdown returned is the one of
\* the network without anything stored by earlier calls, and a computation
\* that follows one of the same breakdown returns the same breakdown.
C24_BreakdownsPure ==
    [][(call'.op \in {"cost_mobility", "cost_infrast"} /\ cost' # None) =>
          /\ Uncosted(net') = Uncosted(net)
          /\ cost' = cost
          /\ call'.ret = BreakdownOf(call'.op, cost[1], Uncosted(net))
          /\ (call.op = call'.op /\ ~call.raised) => call'.ret = call.ret]_vars

\* C24 witness: cost_infrast called on a network whose links store the costs
\* of an earlier cost_infrast returns the breakdown it returned before, which
\* is not zero
C24_Witness ==
    /\ call.op = "cost_infrast" /\ ~call.raised
    /\ old.links[MkId(2, 3)][GaugeA].eac_detour # None
    /\ call.ret = cost_infrast(cost[1], Uncosted(old)).ret
    /\ RLt(Zero, call.ret.total_infrastructure)

\* C24 witness for the mobility breakdown, after a cost_infrast stored costs
C24_WitnessMobility ==
    /\ call.op = "cost_mobility" /\ ~call.raised
    /\ net.links[MkId(2, 3)][GaugeA].eac_detour # None
    /\ call.ret = cost_mobility(cost[1], Uncosted(net))
    /\ RLt(Zero, call.ret.total_mobility)

-----------------------------------------------------------------------------
(* Claims on SpecRegrouping *)

\* the fleet rm without its time figures
Untimed(rm) == [rm EXCEPT !.running_time = Zero, !.idle_time = Zero]

\* the network n without what regrouping works on: the idle capacity of the
\* links, the running and idle time of the fleets and costs["mob"]
Traffic(n) ==
    [n EXCEPT !.links =
                 [id \in DOMAIN n.links |->
                     [g \in DOMAIN n.links[id] |->
                         [n.links[id][g] EXCEPT !.idle_capacity = Zero]]],
              !.locoms = Untimed(@),
              !.wagons = Untimed(@),
              !.costs.mob = None]

\* total tons of the OD pairs and of the links of n
NetworkTons(n) ==
    <<RSumValues([k \in OdKeys(n) |-> get_ton(n.od_pairs[k[1]][k[2]])]),
      RSumValues([k \in LinkKeys(n) |-> Link_get_ton(n.links[k[1]][k[2]])])>>

RegroupingOps ==
    {"calc_optimized_mobility_cost", "_regroup_link", "_revert_regroup_link"}

\* C28: the regrouping pass, and each regroup and revert it is made of,
\* changes nothing of the network but the idle capacity of links, the time
\* figures of the fleets and costs["mob"]: the tons and the distance of
\* every OD pair and link, the sets of links and OD pairs, total tons and
\* total ton-km are the same after as before.
C28_TrafficUntouched ==
    call.op \in RegroupingOps =>
        /\ Traffic(net) = Traffic(old)
        /\ OdKeys(net) = OdKeys(old) /\ LinkKeys(net) = LinkKeys(old)
        /\ NetworkTons(net) = NetworkTons(old)
        /\ get_total_ton_km(net) = get_total_ton_km(old)

\* C28 witness: a regroup of a locomotive or more has changed the idle
\* capacity of a loaded link and the time of the locomotives, the total
\* ton-km being the same positive figure
C28_Witness ==
    /\ call.op = "_regroup_link"
    /\ RLt(Zero, call.idle_locs)
    /\ net.links[call.link[1]][call.link[2]].idle_capacity #
           old.links[call.link[1]][call.link[2]].idle_capacity
    /\ RLt(Zero, Link_get_ton(net.links[call.link[1]][call.link[2]]))
    /\ net.locoms.running_time # old.locoms.running_time
    /\ ~get_total_ton_km(net).raised
    /\ RLt(Zero, get_total_ton_km(net).ret[1])

\* C28 witness for a revert: the regroup of a locomotive or more is undone
C28_WitnessReverted ==
    /\ call.op = "_revert_regroup_link"
    /\ RLt(Zero, call.idle_locs)
    /\ net.locoms.running_time # old.locoms.running_time
    /\ net = call.before

\* C28 witness for the pass: called on a network with idle capacity on a
\* loaded link after the simple assignment was made
C28_WitnessPass ==
    /\ call.op = "calc_optimized_mobility_cost"
    /\ \E k \in LoadedLinkKeys(net) :
          RLt(Zero, net.links[k[1]][k[2]].idle_capacity)

\* the pass ends in the TypeError of the construction of the cost object (see
\* C17) and leaves the network as a whole as it was
C28_PassRaises ==
    call.op = "calc_optimized_mobility_cost" =>
        call.raised /\ call.error = "TypeError" /\ net = old

====
